---- MODULE Spec2Model ----
(***************************************************************************)
(* A model of ComfyBox's graph-to-prompt serializer and backend API client *)
(* (src/src/routes/+page.ts).                                              *)
(*                                                                         *)
(* Three specifications share the module's variables:                      *)
(*   SpecApi  - the websocket lifecycle and message decoding of ComfyAPI   *)
(*   SpecRest - the REST helpers of ComfyAPI                                *)
(*   SpecSer  - ComfyPromptSerializer.serialize over bounded graphs        *)
(***************************************************************************)
EXTENDS Integers, Sequences, FiniteSets, TLC

(***************************************************************************)
(* Bounds                                                                  *)
(***************************************************************************)
\* Sockets 1..MaxSockets-1 may fail or be closed by the environment; the
\* socket numbered MaxSockets stays up, so that a scheduled reconnect is
\* never blocked by the bound.
MaxSockets == 3
\* Websocket frames the backend delivers over the client's lifetime.
MaxMessages == 1
\* Firings of the polling interval over the client's lifetime.
MaxPolls == 1

VARIABLES
    \* ---- ComfyAPI (lines 455-610)
    socket,          \* this.socket: 0 (null) or the number of a socket
    socks,           \* every WebSocket constructed so far, in order of creation
    timers,          \* pending setTimeout callbacks of close handlers (by socket)
    polling,         \* number of setInterval timers started by pollQueue
    emitted,         \* what the handler that ran last called eventBus.emit with, in order
    connEvents,      \* the connectivity events emitted so far, in order (history):
                     \* status(null), reconnecting, reconnected
    clientId,        \* this.clientId
    sessionStorage,  \* sessionStorage["Comfy.SessionId"]
    uncaught,        \* an exception escaped an event handler
    received,        \* frames delivered so far
    ticks,           \* polling interval firings so far
    lastOp,          \* the operation that produced this state
    \* ---- ComfyAPI's REST helpers (lines 619-759)
    rest,            \* the REST call under way: its arguments, request, response, result
    \* ---- ComfyPromptSerializer (lines 27-334)
    graph,           \* the graph handed to serialize: nodes, links, execution order
    tag,             \* the tag handed to serialize, or null
    phase,           \* where serialize is: idle, nodes, returned, threw, diverged
    idx,             \* position of the node loop in the execution order
    output,          \* the output map built so far
    unpruned,        \* the output map as it entered the prune pass (history)
    \* ---- UpstreamNodeLocator.locateUpstream, followed iteration by iteration
    locating         \* the call under way: its arguments, locals and answer

apiVars == <<socket, socks, timers, polling, clientId, sessionStorage, uncaught>>
apiState == <<socket, socks, timers, polling, emitted, connEvents, clientId, sessionStorage,
              uncaught, received, ticks, lastOp>>
restState == <<rest>>
serState == <<graph, tag, phase, idx, output, unpruned>>
locState == <<locating>>
vars == <<apiState, restState, serState, locState>>
\* What the steps of one specification leave alone.
otherThanApi == <<restState, serState, locState>>
otherThanRest == <<socket, socks, timers, polling, emitted, connEvents, clientId,
                   sessionStorage, uncaught, received, ticks, lastOp, serState, locState>>
otherThanSer == <<apiState, restState, locState>>
otherThanLoc == <<apiState, restState, serState>>

NULL == "null"       \* null / undefined of a string-valued field
NoSocket == 0        \* this.socket = null

(***************************************************************************)
(* Graphs (the litegraph objects the serializer reads)                     *)
(***************************************************************************)
ALWAYS == "ALWAYS"   \* NodeMode.ALWAYS
NEVER == "NEVER"     \* any other NodeMode: the node is muted
Root == "root"       \* the root graph; a subgraph's inner graph is named by its node id
NoLink == 0          \* a null link

\* Values carried by links, slot defaults and serialized inputs.  An array is
\* kept as its length, the property key its first element coerces to, and its
\* second element.
Undefined == [kind |-> "undefined", len |-> 0, key |-> NULL, slot |-> 0, n |-> 0]
Scalar(n) == [kind |-> "scalar", len |-> 0, key |-> NULL, slot |-> 0, n |-> n]
Arr(len, key, slot) == [kind |-> "array", len |-> len, key |-> key, slot |-> slot, n |-> 0]

\* An input slot; hasConfig is `"config" in inp`.
Slot(name, link, hasConfig, defaultValue, ser) ==
    [name |-> name, link |-> link, hasConfig |-> hasConfig,
     defaultValue |-> defaultValue, serialize |-> ser]
In(name, link) == Slot(name, link, FALSE, Undefined, TRUE)
Cfg(name, link, defaultValue) == Slot(name, link, TRUE, defaultValue, TRUE)

\* A node.  kind is one of
\*   backend       a ComfyBackendNode (isBackendNode = true)
\*   comfy         a frontend ComfyGraphNode: has getUpstreamLink, which
\*                 answers the link `upstream` (NoLink for null)
\*   ComfyReroute  a ComfyGraphNode whose getUpstreamLink answers its input link
\*   Reroute       litegraph's reroute: no getUpstreamLink
\*   frontend      any other litegraph node: no getUpstreamLink
\*   Subgraph, GraphInput, GraphOutput
\* index is the outer output slot a GraphOutput feeds; nameInGraph is the
\* outer input a GraphInput stands for.
Node(id, kind, g, inputs, upstream, index, nameInGraph) ==
    [id |-> id, kind |-> kind, graph |-> g, inputs |-> inputs, upstream |-> upstream,
     index |-> index, nameInGraph |-> nameInGraph, mode |-> ALWAYS, tags |-> {"T"},
     comfyClass |-> kind]
Backend(id, g, inputs) == Node(id, "backend", g, inputs, NoLink, 0, NULL)
Through(id, kind, g, link) ==
    Node(id, kind, g, <<In("in", link)>>, IF kind = "frontend" THEN NoLink ELSE link, 0, NULL)

Link(id, origin_id, origin_slot, target_id, target_slot, g, data) ==
    [id |-> id, origin_id |-> origin_id, origin_slot |-> origin_slot,
     target_id |-> target_id, target_slot |-> target_slot, graph |-> g, data |-> data]

\* A graph from its nodes in execution order and its links in order of id.
Graph(nodes, links) ==
    [nodes |-> [id \in {nodes[i].id : i \in DOMAIN nodes} |->
                   CHOOSE n \in {nodes[i] : i \in DOMAIN nodes} : n.id = id],
     links |-> links,
     order |-> [i \in DOMAIN nodes |-> nodes[i].id]]
EmptyGraph == Graph(<<>>, <<>>)

\* LGraph.getNodeById on graph g.
getNodeById(g, id) ==
    IF id \in DOMAIN graph.nodes /\ graph.nodes[id].graph = g THEN id ELSE NULL

\* LGraphNode.getInputLink / getInputNode; slot indexes count from 0.
getInputLink(id, i) ==
    LET n == graph.nodes[id] IN
    IF i < 0 \/ i >= Len(n.inputs) THEN NoLink
    ELSE LET l == n.inputs[i + 1].link IN
         IF l \in DOMAIN graph.links /\ graph.links[l].graph = n.graph THEN l ELSE NoLink

getInputNode(id, i) ==
    LET l == getInputLink(id, i) IN
    IF l = NoLink THEN NULL ELSE getNodeById(graph.nodes[id].graph, graph.links[l].origin_id)

\* graph._subgraph_node of the graph named g.
subgraphNode(g) == IF g = Root THEN NULL ELSE g

\* LGraphNode.iterateParentSubgraphNodes.
RECURSIVE iterateParentSubgraphNodes(_)
iterateParentSubgraphNodes(id) ==
    LET p == subgraphNode(graph.nodes[id].graph) IN
    IF p = NULL \/ p \notin DOMAIN graph.nodes THEN {}
    ELSE {p} \cup iterateParentSubgraphNodes(p)

(***************************************************************************)
(* Activity predicates (lines 27-89)                                       *)
(***************************************************************************)
isReroute(id) == graph.nodes[id].kind \in {"Reroute", "ComfyReroute"}

isGraphInputOutput(id) == graph.nodes[id].kind \in {"GraphInput", "GraphOutput"}

\* (mutant) nodeHasTag that never looks at the parent subgraphs
nodeHasTag_OwnTagsOnly(id, tg, checkParents) ==
    id # NULL /\ id \in DOMAIN graph.nodes /\ tg \in graph.nodes[id].tags

RECURSIVE nodeHasTag(_, _, _)
nodeHasTag(id, tg, checkParents) ==
    IF id = NULL \/ id \notin DOMAIN graph.nodes THEN FALSE
    ELSE IF tg \in graph.nodes[id].tags THEN TRUE
    ELSE IF ~checkParents THEN FALSE
    ELSE nodeHasTag(subgraphNode(graph.nodes[id].graph), tg, checkParents)

\* (mutant) isActiveNode with the tag test applied to reroutes too
isActiveNode_TagsOnReroutes(id, tg) ==
    IF id = NULL THEN FALSE
    ELSE IF ~isGraphInputOutput(id) /\ tg # NULL /\ ~nodeHasTag(id, tg, TRUE) THEN FALSE
    ELSE graph.nodes[id].mode = ALWAYS

isActiveNode(id, tg) ==
    IF id = NULL THEN FALSE
    ELSE IF ~isReroute(id) /\ ~isGraphInputOutput(id) /\ tg # NULL /\ ~nodeHasTag(id, tg, TRUE)
    THEN FALSE
    ELSE graph.nodes[id].mode = ALWAYS

isBackendNode(id) == graph.nodes[id].kind = "backend"

\* (mutant) isActiveBackendNode without the test of the parent subgraphs
isActiveBackendNode_OwnStateOnly(id, tg) == isBackendNode(id) /\ isActiveNode(id, tg)

isActiveBackendNode(id, tg) ==
    IF ~isBackendNode(id) THEN FALSE
    ELSE IF ~isActiveNode(id, tg) THEN FALSE
    ELSE IF graph.nodes[id].graph # Root
            /\ \E n \in iterateParentSubgraphNodes(id) : ~isActiveNode(n, tg)
    THEN FALSE
    ELSE TRUE

(***************************************************************************)
(* Upstream traversal (lines 91-208)                                       *)
(***************************************************************************)
\* Iterations of locateUpstream's loop the model follows before it reports
\* the loop as not having ended.
MaxSteps == 4

NoSlot == -1         \* a null / undefined slot index

\* An UpstreamResult, or the throw of an Error.
Up(threw, g, link, slot, node) ==
    [threw |-> threw, graph |-> g, link |-> link, slot |-> slot, node |-> node]
UpThrow == Up(TRUE, NULL, NoLink, NoSlot, NULL)

\* Subgraph.getInnerGraphOutputByIndex: the inner GraphOutput that feeds the
\* outer output slot, or null.
getInnerGraphOutputByIndex(sub, slot) ==
    LET gos == {id \in DOMAIN graph.nodes :
                   /\ graph.nodes[id].kind = "GraphOutput"
                   /\ graph.nodes[id].graph = sub
                   /\ graph.nodes[id].index = slot} IN
    IF gos = {} THEN NULL ELSE CHOOSE id \in gos : TRUE

\* (mutant) followSubgraph that always enters through the first output
followSubgraph_FirstOutput(subgraph, link) ==
    IF graph.links[link].origin_id # subgraph THEN UpThrow
    ELSE LET innerGraphOutput == getInnerGraphOutputByIndex(subgraph, 0) IN
         IF innerGraphOutput = NULL THEN UpThrow
         ELSE Up(FALSE, graph.nodes[innerGraphOutput].graph,
                 getInputLink(innerGraphOutput, 0), 0, innerGraphOutput)

followSubgraph(subgraph, link) ==
    IF graph.links[link].origin_id # subgraph THEN UpThrow
    ELSE LET innerGraphOutput ==
                 getInnerGraphOutputByIndex(subgraph, graph.links[link].origin_slot) IN
         IF innerGraphOutput = NULL THEN UpThrow
         ELSE Up(FALSE, graph.nodes[innerGraphOutput].graph,
                 getInputLink(innerGraphOutput, 0), 0, innerGraphOutput)

\* Array.findIndex over a node's inputs by name; -1 when there is none.
findIndex(id, name) ==
    LET hits == {i \in 0..(Len(graph.nodes[id].inputs) - 1) :
                    graph.nodes[id].inputs[i + 1].name = name} IN
    IF hits = {} THEN -1 ELSE CHOOSE i \in hits : \A j \in hits : i <= j

\* GraphInput.getParentSubgraph: the subgraph node that owns the node's graph.
getParentSubgraph(id) ==
    LET p == subgraphNode(graph.nodes[id].graph) IN
    IF p = NULL \/ p \notin DOMAIN graph.nodes THEN NULL ELSE p

followGraphInput(graphInput, link) ==
    IF graph.links[link].origin_id # graphInput THEN UpThrow
    ELSE LET outerSubgraph == getParentSubgraph(graphInput) IN
         IF outerSubgraph = NULL THEN UpThrow
         ELSE LET outerInputIndex ==
                      findIndex(outerSubgraph, graph.nodes[graphInput].nameInGraph) IN
              IF outerInputIndex = -1 THEN UpThrow
              ELSE Up(FALSE, graph.nodes[outerSubgraph].graph,
                      getInputLink(outerSubgraph, outerInputIndex),
                      outerInputIndex, outerSubgraph)

\* `"getUpstreamLink" in parent`
hasGetUpstreamLink(id) == graph.nodes[id].kind \in {"backend", "comfy", "ComfyReroute"}

getUpstreamLink(parent, currentLink) ==
    LET p == graph.nodes[parent] IN
    IF p.kind = "Subgraph" THEN followSubgraph(parent, currentLink)
    ELSE IF p.kind = "GraphInput" THEN followGraphInput(parent, currentLink)
    ELSE IF hasGetUpstreamLink(parent)
    THEN Up(FALSE, p.graph, p.upstream,
            IF p.upstream = NoLink THEN NoSlot ELSE graph.links[p.upstream].target_slot,
            parent)
    ELSE IF Len(p.inputs) = 1 /\ getInputLink(parent, 0) # NoLink
    THEN Up(FALSE, p.graph, getInputLink(parent, 0), 0, parent)
    ELSE Up(FALSE, NULL, NoLink, NoSlot, NULL)

\* The serializer's target test (line 270).
isTheTargetNode(node, currentLink) == isBackendNode(node)

shouldFollowParent(parent, currentLink, tg) ==
    isActiveNode(parent, tg) /\ ~isTheTargetNode(parent, currentLink)

\* The locals of locateUpstream; broke is the loop's break, threw a throw out
\* of getUpstreamLink, steps the iterations run.
Locals(parent, currentLink, currentInputSlot, currentNode) ==
    [parent |-> parent, currentLink |-> currentLink, currentInputSlot |-> currentInputSlot,
     currentNode |-> currentNode, seen |-> {}, broke |-> FALSE, threw |-> FALSE,
     diverged |-> FALSE, steps |-> 0]

\* (mutant) an iteration that never takes a link for seen
locateIteration_NoSeen(st, tg) ==
    LET up == getUpstreamLink(st.parent, st.currentLink) IN
    IF up.threw THEN [st EXCEPT !.threw = TRUE]
    ELSE LET st1 == [st EXCEPT !.currentInputSlot = up.slot, !.currentNode = up.node,
                               !.steps = @ + 1] IN
         IF up.link = NoLink THEN [st1 EXCEPT !.broke = TRUE]
         ELSE [st1 EXCEPT !.seen = @ \cup {up.link}, !.currentLink = up.link,
                          !.parent = getNodeById(up.graph, graph.links[up.link].origin_id)]

\* (mutant) an iteration that moves to the next parent but keeps currentLink
locateIteration_KeepsLink(st, tg) ==
    LET up == getUpstreamLink(st.parent, st.currentLink) IN
    IF up.threw THEN [st EXCEPT !.threw = TRUE]
    ELSE LET st1 == [st EXCEPT !.currentInputSlot = up.slot, !.currentNode = up.node,
                               !.steps = @ + 1] IN
         IF up.link = NoLink THEN [st1 EXCEPT !.broke = TRUE]
         ELSE IF up.link \notin st.seen
         THEN LET nextParent == getNodeById(up.graph, graph.links[up.link].origin_id) IN
              IF ~isActiveNode(st.parent, tg)
              THEN [st1 EXCEPT !.seen = @ \cup {up.link}, !.parent = NULL]
              ELSE [st1 EXCEPT !.seen = @ \cup {up.link}, !.parent = nextParent]
         ELSE [st1 EXCEPT !.parent = NULL]

\* lines 177-200: one iteration of the loop.
locateIteration(st, tg) ==
    LET up == getUpstreamLink(st.parent, st.currentLink) IN
    IF up.threw THEN [st EXCEPT !.threw = TRUE]
    ELSE LET st1 == [st EXCEPT !.currentInputSlot = up.slot, !.currentNode = up.node,
                               !.steps = @ + 1] IN
         IF up.link = NoLink THEN [st1 EXCEPT !.broke = TRUE]
         ELSE IF up.link \notin st.seen
         THEN LET nextParent == getNodeById(up.graph, graph.links[up.link].origin_id) IN
              IF ~isActiveNode(st.parent, tg)
              THEN [st1 EXCEPT !.seen = @ \cup {up.link}, !.parent = NULL]
              ELSE [st1 EXCEPT !.seen = @ \cup {up.link}, !.currentLink = up.link,
                               !.parent = nextParent]
         ELSE [st1 EXCEPT !.parent = NULL]

\* F applied to the value of v, with v computed once.
Once(F(_), v) == CHOOSE r \in {F(x) : x \in {v}} : TRUE

\* lines 176-201: the loop.
RECURSIVE locateLoop(_, _)
locateLoop(st, tg) ==
    IF st.threw \/ st.broke \/ ~shouldFollowParent(st.parent, st.currentLink, tg) THEN st
    ELSE IF st.steps >= MaxSteps THEN [st EXCEPT !.diverged = TRUE]
    ELSE Once(LAMBDA next : locateLoop(next, tg), locateIteration(st, tg))

\* What locateUpstream answers: its four results, or a throw, or no answer.
Located(found, link, slot, node, threw, diverged, steps) ==
    [found |-> found, link |-> link, slot |-> slot, node |-> node,
     threw |-> threw, diverged |-> diverged, steps |-> steps]

\* lines 203-206: the answer, from the locals the loop ended with.
locateAnswer(st, tg) ==
    IF st.threw \/ st.diverged
    THEN Located(NULL, NoLink, NoSlot, NULL, st.threw, st.diverged, st.steps)
    ELSE IF \/ ~isActiveNode(st.parent, tg)
            \/ ~isTheTargetNode(st.parent, st.currentLink)
            \/ st.currentLink = NoLink
    THEN Located(NULL, st.currentLink, st.currentInputSlot, st.currentNode,
                 FALSE, FALSE, st.steps)
    ELSE Located(st.parent, st.currentLink, st.currentInputSlot, st.currentNode,
                 FALSE, FALSE, st.steps)

locateUpstream(fromNode, inputIndex, tg) ==
    LET parent == getInputNode(fromNode, inputIndex) IN
    IF parent = NULL THEN Located(NULL, NoLink, NoSlot, NULL, FALSE, FALSE, 0)
    ELSE Once(LAMBDA st : locateAnswer(st, tg),
              locateLoop(Locals(parent, getInputLink(fromNode, inputIndex),
                                inputIndex, fromNode), tg))

(***************************************************************************)
(* locateUpstream, one loop iteration per step                             *)
(***************************************************************************)
\* A call of locateUpstream(fromNode, inputIndex, tag).  through collects
\* the nodes the traversal passed (history): every parent it followed and
\* every node getUpstreamLink answered; revisited records that an iteration
\* met a link id already in seen (history).
Locating(at, fromNode, inputIndex, st, answer, through, revisited) ==
    [pc |-> at, fromNode |-> fromNode, inputIndex |-> inputIndex, st |-> st,
     answer |-> answer, through |-> through, revisited |-> revisited]
NoAnswer == Located(NULL, NoLink, NoSlot, NULL, FALSE, FALSE, 0)
NotLocating ==
    Locating("idle", NULL, NoSlot, Locals(NULL, NoLink, NoSlot, NULL), NoAnswer, {}, FALSE)

\* lines 157-164: the call, up to the loop; without a parent it returns.
locateUpstreamCall(fromNode, inputIndex) ==
    /\ locating.pc = "idle"
    /\ LET parent == getInputNode(fromNode, inputIndex) IN
       locating' =
           IF parent = NULL
           THEN Locating("done", fromNode, inputIndex, locating.st, NoAnswer, {}, FALSE)
           ELSE Locating("loop", fromNode, inputIndex,
                         Locals(parent, getInputLink(fromNode, inputIndex), inputIndex, fromNode),
                         NoAnswer, {}, FALSE)
    /\ UNCHANGED otherThanLoc

\* lines 176-200: the loop test holds and one iteration runs.
locateStep ==
    /\ locating.pc = "loop"
    /\ ~locating.st.threw
    /\ ~locating.st.broke
    /\ shouldFollowParent(locating.st.parent, locating.st.currentLink, tag)
    /\ locating.st.steps < MaxSteps
    /\ LET up == getUpstreamLink(locating.st.parent, locating.st.currentLink) IN
       locating' = [locating EXCEPT
           !.st = locateIteration(locating.st, tag),
           !.through = @ \cup {locating.st.parent} \cup ({up.node} \ {NULL}),
           !.revisited = @ \/ (~up.threw /\ up.link # NoLink /\ up.link \in locating.st.seen)]
    /\ UNCHANGED otherThanLoc

\* lines 201-206: the loop has ended and locateUpstream returns.
locateReturn ==
    /\ locating.pc = "loop"
    /\ ~locating.st.threw
    /\ locating.st.broke \/ ~shouldFollowParent(locating.st.parent, locating.st.currentLink, tag)
    /\ locating' = [locating EXCEPT !.pc = "done", !.answer = locateAnswer(locating.st, tag)]
    /\ UNCHANGED otherThanLoc

\* lines 95-115: the Error thrown under getUpstreamLink leaves locateUpstream.
locateThrow ==
    /\ locating.pc = "loop"
    /\ locating.st.threw
    /\ locating' = [locating EXCEPT !.pc = "threw"]
    /\ UNCHANGED otherThanLoc

(***************************************************************************)
(* ComfyPromptSerializer (lines 210-334)                                   *)
(***************************************************************************)
\* An empty object, and obj[k] = v.
EmptyMap == [k \in {} |-> Undefined]
Put(obj, k, v) == [x \in DOMAIN obj \cup {k} |-> IF x = k THEN v ELSE obj[x]]

\* { ...a, ...b }
Spread(a, b) == [x \in DOMAIN a \cup DOMAIN b |-> IF x \in DOMAIN b THEN b[x] ELSE a[x]]

\* String(id) of a node id; node ids are UUID strings already.
String(id) == id

\* `"isBackendNode" in inputNode`: the property of ComfyGraphNode.
hasIsBackendNode(id) == graph.nodes[id].kind \in {"backend", "comfy", "ComfyReroute"}

\* (mutant) the loop body giving a slot fed by a muted node its default
inputValue_DefaultWhenMuted(node, i, inputs) ==
    LET inp == graph.nodes[node].inputs[i + 1]
        inputLink == getInputLink(node, i)
        inputNode == getInputNode(node, i)
        muted == inputNode # NULL /\ graph.nodes[inputNode].mode # ALWAYS
    IN  IF muted \/ inputLink = NoLink \/ inputNode = NULL
        THEN IF inp.hasConfig /\ inp.defaultValue # Undefined
             THEN Put(inputs, inp.name, inp.defaultValue)
             ELSE inputs
        ELSE IF (IF inp.hasConfig THEN inp.serialize ELSE TRUE) /\ isBackendNode(node)
                /\ ~(hasIsBackendNode(inputNode) /\ isBackendNode(inputNode))
        THEN Put(inputs, inp.name, graph.links[inputLink].data)
        ELSE inputs

\* lines 220-260: the loop body of serializeInputValues for slot i.
inputValue(node, i, inputs) ==
    LET inp == graph.nodes[node].inputs[i + 1]
        inputLink == getInputLink(node, i)
        inputNode == getInputNode(node, i)
    IN  IF inputNode # NULL /\ graph.nodes[inputNode].mode # ALWAYS THEN inputs
        ELSE IF inputLink = NoLink \/ inputNode = NULL
        THEN IF inp.hasConfig /\ inp.defaultValue # Undefined
             THEN Put(inputs, inp.name, inp.defaultValue)
             ELSE inputs
        ELSE LET ser == IF inp.hasConfig THEN inp.serialize ELSE TRUE
                 isInputBackendNode ==
                     IF hasIsBackendNode(inputNode) THEN isBackendNode(inputNode) ELSE FALSE
             IN  IF ser /\ isBackendNode(node) /\ ~isInputBackendNode
                 THEN Put(inputs, inp.name, graph.links[inputLink].data)
                 ELSE inputs

RECURSIVE inputValuesFrom(_, _, _)
inputValuesFrom(node, i, inputs) ==
    IF i >= Len(graph.nodes[node].inputs) THEN inputs
    ELSE Once(LAMBDA next : inputValuesFrom(node, i + 1, next), inputValue(node, i, inputs))

serializeInputValues(node) == inputValuesFrom(node, 0, EmptyMap)

\* What serializeBackendLinks answers: its inputs, or a throw, or no answer.
Links(inputs, threw, diverged) == [inputs |-> inputs, threw |-> threw, diverged |-> diverged]

\* (mutant) the loop body writing the link's target slot
backendLink_TargetSlot(node, tg, i, acc) ==
    LET loc == locateUpstream(node, i, tg) IN
    IF loc.threw THEN [acc EXCEPT !.threw = TRUE]
    ELSE IF loc.diverged THEN [acc EXCEPT !.diverged = TRUE]
    ELSE IF loc.found # NULL /\ graph.nodes[node].inputs[i + 1].name \notin DOMAIN acc.inputs
    THEN [acc EXCEPT !.inputs = Put(@, graph.nodes[node].inputs[i + 1].name,
                         Arr(2, String(graph.links[loc.link].origin_id),
                             graph.links[loc.link].target_slot))]
    ELSE acc

\* lines 275-284: the loop body of serializeBackendLinks for slot i.
backendLink(node, tg, i, acc) ==
    LET loc == locateUpstream(node, i, tg) IN
    IF loc.threw THEN [acc EXCEPT !.threw = TRUE]
    ELSE IF loc.diverged THEN [acc EXCEPT !.diverged = TRUE]
    ELSE IF loc.found # NULL
    THEN LET input == graph.nodes[node].inputs[i + 1]
             linkLeadingTo == graph.links[loc.link] IN
         IF input.name \notin DOMAIN acc.inputs
         THEN [acc EXCEPT !.inputs = Put(@, input.name,
                              Arr(2, String(linkLeadingTo.origin_id), linkLeadingTo.origin_slot))]
         ELSE acc
    ELSE acc

RECURSIVE backendLinksFrom(_, _, _, _)
backendLinksFrom(node, tg, i, acc) ==
    IF i >= Len(graph.nodes[node].inputs) \/ acc.threw \/ acc.diverged THEN acc
    ELSE Once(LAMBDA next : backendLinksFrom(node, tg, i + 1, next), backendLink(node, tg, i, acc))

serializeBackendLinks(node, tg) == backendLinksFrom(node, tg, 0, Links(EmptyMap, FALSE, FALSE))

\* lines 320-322: the test of the prune pass on one input value.
\* (a pass that deletes nothing, for comparison)
shouldPrune_Never(out, v) == FALSE
shouldPrune(out, v) == v.kind = "array" /\ v.len = 2 /\ v.key \notin DOMAIN out

\* lines 318-327: the prune pass.
pruneRemoved(out) ==
    [nodeId \in DOMAIN out |->
        [out[nodeId] EXCEPT !.inputs =
            [inputName \in {k \in DOMAIN out[nodeId].inputs :
                               ~shouldPrune(out, out[nodeId].inputs[k])} |->
                out[nodeId].inputs[inputName]]]]

\* lines 290-296: serialize(graph, tag) up to its node loop.
serialize ==
    /\ phase = "idle"
    /\ phase' = "nodes"
    /\ idx' = 1
    /\ output' = EmptyMap
    /\ UNCHANGED <<graph, tag, unpruned>>
    /\ UNCHANGED otherThanSer

\* lines 299-315: the node loop's body for the next node in execution order;
\* a throw out of the upstream traversal ends serialize.
serializeNode ==
    /\ phase = "nodes"
    /\ idx <= Len(graph.order)
    /\ LET node == graph.order[idx] IN
       IF ~isActiveBackendNode(node, tag)
       THEN idx' = idx + 1 /\ UNCHANGED <<phase, output>>
       ELSE LET inputs == serializeInputValues(node)
                links == serializeBackendLinks(node, tag) IN
            IF links.threw THEN phase' = "threw" /\ UNCHANGED <<idx, output>>
            ELSE IF links.diverged THEN phase' = "diverged" /\ UNCHANGED <<idx, output>>
            ELSE /\ output' = Put(output, String(node),
                                  [inputs |-> Spread(inputs, links.inputs),
                                   class_type |-> graph.nodes[node].comfyClass])
                 /\ idx' = idx + 1
                 /\ UNCHANGED phase
    /\ UNCHANGED <<graph, tag, unpruned>>
    /\ UNCHANGED otherThanSer

\* lines 317-332: the prune pass and the return.
serializeReturn ==
    /\ phase = "nodes"
    /\ idx > Len(graph.order)
    /\ unpruned' = output
    /\ output' = pruneRemoved(output)
    /\ phase' = "returned"
    /\ UNCHANGED <<graph, tag, idx>>
    /\ UNCHANGED otherThanSer

(***************************************************************************)
(* Websocket frames                                                        *)
(***************************************************************************)
\* A 4-byte big-endian word holding a small number.
Word(n) == <<0, 0, 0, n>>

NoJson == [valid |-> FALSE, type |-> NULL, hasData |-> FALSE, sid |-> NULL, hasStatus |-> FALSE]

BinFrame(bytes) == [bin |-> TRUE, bytes |-> bytes, json |-> NoJson]
TextFrame(j) == [bin |-> FALSE, bytes |-> <<>>, json |-> j]

\* msg.type values the handler's switch knows (lines 574-601).
KnownTypes == {"status", "progress", "executing", "executed", "execution_start",
               "execution_cached", "execution_interrupted", "execution_error"}

BinFrames ==
    {BinFrame(Word(a) \o Word(b) \o <<9>>) : a \in {1, 2}, b \in {1, 2, 3}}
    \cup {BinFrame(<<0, 0>>),                          \* shorter than one word
          BinFrame(<<1, 0, 0, 1>> \o Word(2) \o <<9>>)} \* type 16777217

JsonFrames ==
    {TextFrame(NoJson)}                                \* not JSON at all
    \cup {TextFrame([valid |-> TRUE, type |-> "status", hasData |-> TRUE, sid |-> s, hasStatus |-> h]) :
            s \in {NULL, "sid1"}, h \in BOOLEAN}
    \cup {TextFrame([valid |-> TRUE, type |-> t, hasData |-> TRUE, sid |-> NULL, hasStatus |-> FALSE]) :
            t \in (KnownTypes \ {"status"}) \cup {"crystools.monitor"}}
    \cup {TextFrame([valid |-> TRUE, type |-> t, hasData |-> FALSE, sid |-> NULL, hasStatus |-> FALSE]) :
            t \in {"status", "progress", "executing"}}

Frames == BinFrames \cup JsonFrames

(***************************************************************************)
(* Message decoding (lines 545-609)                                        *)
(***************************************************************************)
Event(type, data, s) == [type |-> type, data |-> data, sock |-> s]

\* DataView.getUint32(off): big-endian; the caller checks the range.
getUint32(bytes, off) ==
    bytes[off + 1] * 16777216 + bytes[off + 2] * 65536 + bytes[off + 3] * 256 + bytes[off + 4]

\* ArrayBuffer.slice(n)
slice(bytes, n) == IF n >= Len(bytes) THEN <<>> ELSE SubSeq(bytes, n + 1, Len(bytes))

\* What the body of the try block did before it finished or threw.
Outcome(threw, emits, sid) == [threw |-> threw, emits |-> emits, sid |-> sid]

\* lines 547-570: the ArrayBuffer branch.
binaryMessage(data, s) ==
    IF Len(data) < 4 THEN Outcome(TRUE, <<>>, NULL)        \* RangeError of getUint32
    ELSE LET eventType == getUint32(data, 0)
             buffer == slice(data, 4)
         IN  IF eventType = 1
             THEN LET imageType == getUint32(data, 0)      \* view2 is over event.data
                      imageMime == IF imageType = 2 THEN "image/png" ELSE "image/jpeg"
                  IN  Outcome(FALSE, <<Event("b_preview", imageMime, s)>>, NULL)
             ELSE Outcome(TRUE, <<>>, NULL)                \* Unknown binary websocket message

\* (mutant) the session id captured only by a status message that is complete
jsonMessage_SidWithStatusOnly(msg, s) ==
    IF msg.valid /\ msg.type = "status" /\ msg.hasData /\ msg.hasStatus
    THEN Outcome(FALSE, <<Event("status", "exec", s)>>, msg.sid)
    ELSE Outcome(~msg.valid \/ ~msg.hasData, <<>>, NULL)

\* lines 571-605: the JSON branch.
jsonMessage(msg, s) ==
    IF ~msg.valid THEN Outcome(TRUE, <<>>, NULL)           \* JSON.parse throws
    ELSE IF msg.type = "status"
    THEN IF ~msg.hasData THEN Outcome(TRUE, <<>>, NULL)    \* msg.data.sid of undefined
         ELSE IF ~msg.hasStatus THEN Outcome(TRUE, <<>>, msg.sid)
         ELSE Outcome(FALSE, <<Event("status", "exec", s)>>, msg.sid)
    ELSE IF msg.type \in {"progress", "execution_interrupted", "execution_error"}
    THEN Outcome(FALSE, <<Event(msg.type, "data", s)>>, NULL)
    ELSE IF msg.type \in {"executing", "executed", "execution_start", "execution_cached"}
    THEN IF ~msg.hasData THEN Outcome(TRUE, <<>>, NULL)    \* msg.data.prompt_id of undefined
         ELSE Outcome(FALSE, <<Event(msg.type, "data", s)>>, NULL)
    ELSE Outcome(FALSE, <<>>, NULL)                        \* console.warn("Unhandled message")

messageBody(frame, s) ==
    IF frame.bin THEN binaryMessage(frame.bytes, s) ELSE jsonMessage(frame.json, s)

\* (mutant) the body without the try/catch
onMessage_NoCatch(frame, s) == messageBody(frame, s)

\* lines 546 and 606-608: the try/catch around the body; the catch only logs.
onMessage(frame, s) ==
    LET b == messageBody(frame, s) IN [b EXCEPT !.threw = FALSE]

(***************************************************************************)
(* Socket lifecycle (lines 470-543, 615-617)                               *)
(***************************************************************************)
\* (mutant) every socket constructed as a first attempt, the timer's too
NewSocket_NeverReconnect(isReconnect) ==
    [st |-> "connecting", isReconnect |-> FALSE, opened |-> FALSE,
     query |-> sessionStorage, born |-> Len(connEvents)]

\* lines 506-518: the socket as constructed; born is the number of connectivity
\* events emitted before it was constructed (history, not program state).
NewSocket(isReconnect) ==
    [st |-> "connecting", isReconnect |-> isReconnect, opened |-> FALSE,
     query |-> sessionStorage, born |-> Len(connEvents)]

\* (mutant) createSocket without the check of this.socket
createSocket_NoGuard(ref, isReconnect) ==
    [socket |-> Len(socks) + 1, socks |-> Append(socks, NewSocket(isReconnect))]

\* createSocket called while this.socket = ref: the resulting this.socket and sockets.
createSocket(ref, isReconnect) ==
    IF ref /= NoSocket
    THEN [socket |-> ref, socks |-> socks]
    ELSE [socket |-> Len(socks) + 1, socks |-> Append(socks, NewSocket(isReconnect))]

\* WebSocket.close() on socket number ref, given the sockets ss.
close(ss, ref) ==
    IF ref \in DOMAIN ss /\ ss[ref].st \in {"connecting", "open"}
    THEN [ss EXCEPT ![ref].st = "closing"]
    ELSE ss

\* (mutant) polling started by any socket that fails before opening
errorStartsPolling_AnyUnopened(sk) == ~sk.opened

\* lines 529-531: whether the error handler of socket record sk starts polling.
errorStartsPolling(sk) == ~sk.isReconnect /\ ~sk.opened

\* (mutant) the close handler announcing a reconnect for every socket
closeEmits_Always(sk, s) == <<Event("status", NULL, s), Event("reconnecting", NULL, s)>>

\* (mutant) the two events emitted the other way round
closeEmits_Swapped(sk, s) ==
    IF sk.opened THEN <<Event("reconnecting", NULL, s), Event("status", NULL, s)>> ELSE <<>>

\* lines 534-543: what the close handler of socket record sk emits.
closeEmits(sk, s) ==
    IF sk.opened THEN <<Event("status", NULL, s), Event("reconnecting", NULL, s)>> ELSE <<>>

\* (mutant) a reconnect only for a socket that had opened
closeSchedulesReconnect_IfOpened(sk) == sk.opened

\* lines 535-538: whether the close handler schedules the reconnect timer.
closeSchedulesReconnect(sk) == TRUE

\* The lastOp of a step that is not the delivery of a frame.
NoFrame == [bin |-> FALSE, bytes |-> <<>>, json |-> NoJson]
Op(name, s) == [op |-> name, sock |-> s, frame |-> NoFrame]

\* The connectivity events among es.
Connectivity(es) ==
    SelectSeq(es, LAMBDA e : e.type \in {"reconnecting", "reconnected"}
                             \/ (e.type = "status" /\ e.data = NULL))

\* eventBus.emit of es by the handler that is running.
Emit(es) ==
    /\ emitted' = es
    /\ connEvents' = connEvents \o Connectivity(es)

\* lines 615-617
init ==
    /\ LET r == createSocket(socket, FALSE)
       IN  socket' = r.socket /\ socks' = r.socks
    /\ Emit(<<>>)
    /\ lastOp' = Op("init", 0)
    /\ UNCHANGED <<timers, polling, clientId, sessionStorage, uncaught, received, ticks>>
    /\ UNCHANGED otherThanApi

\* lines 520-525: the "open" event of socket s.
SocketOpen(s) ==
    /\ s \in DOMAIN socks /\ socks[s].st = "connecting"
    /\ socks' = [socks EXCEPT ![s].st = "open", ![s].opened = TRUE]
    /\ Emit(IF socks[s].isReconnect THEN <<Event("reconnected", NULL, s)>> ELSE <<>>)
    /\ lastOp' = Op("open", s)
    /\ UNCHANGED <<socket, timers, polling, clientId, sessionStorage, uncaught, received, ticks>>
    /\ UNCHANGED otherThanApi

\* lines 527-532: the "error" event of socket s; the connection has failed
\* (readyState CLOSED) and its close event is pending.
SocketError(s) ==
    /\ s \in DOMAIN socks /\ socks[s].st \in {"connecting", "open"}
    /\ s < MaxSockets
    /\ LET failed == [socks EXCEPT ![s].st = "errored"]
       IN  socks' = IF socket /= NoSocket THEN close(failed, socket) ELSE failed
    /\ polling' = IF errorStartsPolling(socks[s]) THEN polling + 1 ELSE polling
    /\ Emit(<<>>)
    /\ lastOp' = Op("error", s)
    /\ UNCHANGED <<socket, timers, clientId, sessionStorage, uncaught, received, ticks>>
    /\ UNCHANGED otherThanApi

\* lines 534-543: the "close" event of socket s.
SocketClose(s) ==
    /\ s \in DOMAIN socks /\ socks[s].st \in {"open", "errored", "closing"}
    /\ s < MaxSockets
    /\ socks' = [socks EXCEPT ![s].st = "closed"]
    /\ timers' = IF closeSchedulesReconnect(socks[s]) THEN timers \cup {s} ELSE timers
    /\ Emit(closeEmits(socks[s], s))
    /\ lastOp' = Op("close", s)
    /\ UNCHANGED <<socket, polling, clientId, sessionStorage, uncaught, received, ticks>>
    /\ UNCHANGED otherThanApi

\* lines 535-538: the timeout callback scheduled by the close handler of socket t.
TimerFire(t) ==
    /\ t \in timers
    /\ timers' = timers \ {t}
    /\ LET r == createSocket(NoSocket, TRUE)
       IN  socket' = r.socket /\ socks' = r.socks
    /\ Emit(<<>>)
    /\ lastOp' = Op("timer", t)
    /\ UNCHANGED <<polling, clientId, sessionStorage, uncaught, received, ticks>>
    /\ UNCHANGED otherThanApi

\* lines 545-609: the "message" event of socket s carrying frame.
Message(s, frame) ==
    /\ s \in DOMAIN socks /\ socks[s].st = "open"
    /\ received < MaxMessages
    /\ received' = received + 1
    /\ LET r == onMessage(frame, s)
       IN  /\ Emit(r.emits)
           /\ clientId' = IF r.sid /= NULL THEN r.sid ELSE clientId
           /\ sessionStorage' = IF r.sid /= NULL THEN r.sid ELSE sessionStorage
           /\ uncaught' = (uncaught \/ r.threw)
    /\ lastOp' = [op |-> "message", sock |-> s, frame |-> frame]
    /\ UNCHANGED <<socket, socks, timers, polling, ticks>>
    /\ UNCHANGED otherThanApi

\* lines 470-480: one firing of the interval started by pollQueue.
PollTick(ok) ==
    /\ polling > 0
    /\ ticks < MaxPolls
    /\ ticks' = ticks + 1
    /\ Emit(<<Event("status", IF ok THEN "exec" ELSE "error", 0)>>)
    /\ lastOp' = Op("poll", 0)
    /\ UNCHANGED <<socket, socks, timers, polling, clientId, sessionStorage, uncaught, received>>
    /\ UNCHANGED otherThanApi

(***************************************************************************)
(* REST helpers (lines 619-759)                                            *)
(***************************************************************************)
\* An optional field of an object: <<>> when unset, <<v>> when set to v.
None == <<>>
Some(v) == <<v>>

\* The body of a response as res.json() finds it: not JSON ("invalid"), the
\* JSON null, the backend's answer to a queued prompt, its structured error,
\* or any other JSON object.
Payload(kind, prompt_id, number) == [kind |-> kind, prompt_id |-> prompt_id, number |-> number]
NoPayload == Payload("none", NULL, None)
Payloads == {Payload("invalid", NULL, None), Payload("null", NULL, None),
             Payload("prompt", "p1", Some(3)), Payload("error", NULL, None),
             Payload("object", NULL, None)}

\* What fetch settles with: a rejection (ok = FALSE) or a response.
Response(ok, status, json) == [ok |-> ok, status |-> status, json |-> json]
NoResponse == Response(FALSE, 0, NoPayload)
Responses == {NoResponse} \cup {Response(TRUE, st, j) : st \in {200, 400}, j \in Payloads}

\* The request handed to fetch; body as JSON.stringify wrote it.
Body(kind, client_id, front, number) ==
    [kind |-> kind, client_id |-> client_id, front |-> front, number |-> number]
NoBody == Body("none", NULL, None, None)
Request(method, path, body) == [method |-> method, path |-> path, body |-> body]
NoRequest == Request(NULL, NULL, NoBody)

\* How the promise a helper returned settled.  shape names the value: the
\* parsed body ("json"), the raw Response ("response"), the object a helper
\* builds ("queue", "history", "prompt", "stringify"), or an exception object.
Resolved(shape, data, error) == [state |-> "resolved", shape |-> shape, data |-> data, error |-> error]
Rejected(shape, error) == [state |-> "rejected", shape |-> shape, data |-> NoPayload, error |-> error]
NoResult == [state |-> "pending", shape |-> NULL, data |-> NoPayload, error |-> NULL]

FetchFailed == "TypeError: Failed to fetch"
\* The exception of res.json() on response r, NULL when it parses.
JsonError(r) == IF r.json.kind = "invalid" THEN "SyntaxError" ELSE NULL

\* The arguments of a call: queuePrompt's body, or the list of postItem.
Args(type, number, front, circular) ==
    [type |-> type, number |-> number, front |-> front, circular |-> circular]
NoArgs == Args(NULL, None, None, FALSE)

Call(pc, helper, args, request, response, result) ==
    [pc |-> pc, helper |-> helper, args |-> args, request |-> request,
     response |-> response, result |-> result]
Idle == Call("idle", NULL, NoArgs, NoRequest, NoResponse, NoResult)

\* lines 623-644, 756-759: fetch(...).then(resp => resp.json())
jsonThen(r) ==
    IF ~r.ok THEN Rejected("exception", FetchFailed)
    ELSE IF JsonError(r) /= NULL THEN Rejected("exception", JsonError(r))
    ELSE Resolved("json", r.json, NULL)

\* lines 687-697
getQueueThen(r) ==
    IF ~r.ok THEN Resolved("queue", NoPayload, FetchFailed)
    ELSE IF JsonError(r) /= NULL THEN Resolved("queue", NoPayload, JsonError(r))
    ELSE IF r.json.kind = "null" THEN Resolved("queue", NoPayload, "TypeError")
    ELSE Resolved("queue", r.json, NULL)

\* (mutant) getHistory without its catch
getHistoryThen_NoCatch(r) ==
    IF ~r.ok THEN Rejected("exception", FetchFailed)
    ELSE IF JsonError(r) /= NULL THEN Rejected("exception", JsonError(r))
    ELSE Resolved("history", r.json, NULL)

\* lines 703-708
getHistoryThen(r) ==
    IF ~r.ok THEN Resolved("history", NoPayload, FetchFailed)
    ELSE IF JsonError(r) /= NULL THEN Resolved("history", NoPayload, JsonError(r))
    ELSE Resolved("history", r.json, NULL)

\* lines 723-729, 753: the promise of fetch itself
responseThen(r) ==
    IF ~r.ok THEN Rejected("exception", FetchFailed)
    ELSE Resolved("response", NoPayload, NULL)

\* (mutant) queuePrompt without its status test
queuePromptThen_NoStatusTest(r) ==
    IF ~r.ok THEN Resolved("exception", NoPayload, FetchFailed)
    ELSE IF JsonError(r) /= NULL THEN Resolved("exception", NoPayload, JsonError(r))
    ELSE IF r.json.kind = "null" THEN Resolved("exception", NoPayload, "TypeError")
    ELSE Resolved("prompt", Payload("prompt", r.json.prompt_id, r.json.number), NULL)

\* lines 673-680
queuePromptThen(r) ==
    IF ~r.ok THEN Resolved("exception", NoPayload, FetchFailed)
    ELSE IF JsonError(r) /= NULL THEN Resolved("exception", NoPayload, JsonError(r))
    ELSE IF r.status /= 200 THEN Resolved("json", r.json, NULL)
    ELSE IF r.json.kind = "null" THEN Resolved("exception", NoPayload, "TypeError")
    ELSE Resolved("prompt", Payload("prompt", r.json.prompt_id, r.json.number), NULL)

\* (mutant) front set for every number below 1
queuePromptBody_FrontBelowOne(a) ==
    Body("prompt", clientId,
         IF a.number /= None /\ a.number[1] < 1 THEN Some(TRUE) ELSE a.front, a.number)

\* lines 652-656: the body as queuePrompt leaves it before JSON.stringify.
queuePromptBody(a) ==
    Body("prompt", clientId, IF a.number = Some(-1) THEN Some(TRUE) ELSE a.front, a.number)

JsonHelpers == {"getExtensions", "getEmbeddings", "getNodeDefs", "getSystemStats"}
ResponseHelpers == {"deleteItem", "clearItems", "interrupt"}
Helpers == JsonHelpers \cup ResponseHelpers \cup {"getQueue", "getHistory", "queuePrompt"}

\* The continuation each helper chains on its fetch.
Then(helper, r) ==
    CASE helper \in JsonHelpers -> jsonThen(r)
      [] helper \in ResponseHelpers -> responseThen(r)
      [] helper = "getQueue" -> getQueueThen(r)
      [] helper = "getHistory" -> getHistoryThen(r)
      [] helper = "queuePrompt" -> queuePromptThen(r)

\* A helper has issued its fetch.
Fetching(helper, args, request) == Call("fetching", helper, args, request, NoResponse, NoResult)
\* One call is followed at a time.
CanCall == rest.pc /= "fetching"

\* lines 623-626
getExtensions ==
    /\ CanCall
    /\ rest' = Fetching("getExtensions", NoArgs, Request("GET", "/extensions", NoBody))
    /\ UNCHANGED otherThanRest

\* lines 632-635
getEmbeddings ==
    /\ CanCall
    /\ rest' = Fetching("getEmbeddings", NoArgs, Request("GET", "/embeddings", NoBody))
    /\ UNCHANGED otherThanRest

\* lines 641-644
getNodeDefs ==
    /\ CanCall
    /\ rest' = Fetching("getNodeDefs", NoArgs, Request("GET", "/object_info", NoBody))
    /\ UNCHANGED otherThanRest

\* lines 756-759
getSystemStats ==
    /\ CanCall
    /\ rest' = Fetching("getSystemStats", NoArgs, Request("GET", "/system_stats", NoBody))
    /\ UNCHANGED otherThanRest

\* lines 687-688
getQueue ==
    /\ CanCall
    /\ rest' = Fetching("getQueue", NoArgs, Request("GET", "/queue", NoBody))
    /\ UNCHANGED otherThanRest

\* lines 703-704
getHistory ==
    /\ CanCall
    /\ rest' = Fetching("getHistory", NoArgs, Request("GET", "/history", NoBody))
    /\ UNCHANGED otherThanRest

\* lines 752-754
interrupt ==
    /\ CanCall
    /\ rest' = Fetching("interrupt", NoArgs, Request("POST", "/interrupt", NoBody))
    /\ UNCHANGED otherThanRest

\* lines 715-739: deleteItem(type, id) through postItem
deleteItem(type) ==
    /\ CanCall
    /\ rest' = Fetching("deleteItem", Args(type, None, None, FALSE),
                        Request("POST", type, Body("delete", NULL, None, None)))
    /\ UNCHANGED otherThanRest

\* lines 715-730, 745-747: clearItems(type) through postItem
clearItems(type) ==
    /\ CanCall
    /\ rest' = Fetching("clearItems", Args(type, None, None, FALSE),
                        Request("POST", type, Body("clear", NULL, None, None)))
    /\ UNCHANGED otherThanRest

\* lines 651-672: queuePrompt(body) up to its fetch, or to the rejection
\* when the body cannot be written as JSON.
queuePrompt(a) ==
    /\ CanCall
    /\ rest' = IF a.circular
               THEN Call("settled", "queuePrompt", a, NoRequest, NoResponse,
                         Rejected("stringify", "TypeError: cyclic object value"))
               ELSE Fetching("queuePrompt", a, Request("POST", "/prompt", queuePromptBody(a)))
    /\ UNCHANGED otherThanRest

\* fetch settles with r and the helper's chain runs.
FetchSettles(r) ==
    /\ rest.pc = "fetching"
    /\ rest' = [rest EXCEPT !.pc = "settled", !.response = r, !.result = Then(rest.helper, r)]
    /\ UNCHANGED otherThanRest

\* serialize is not running.
SerIdle ==
    /\ graph = EmptyGraph
    /\ tag = NULL
    /\ phase = "idle"
    /\ idx = 0
    /\ output = EmptyMap
    /\ unpruned = EmptyMap
    /\ locating = NotLocating

PromptArgs ==
    {Args(NULL, n, f, c) : n \in {None, Some(-1), Some(0), Some(1)},
                           f \in {None, Some(TRUE), Some(FALSE)}, c \in BOOLEAN}

InitRest ==
    /\ socket = NoSocket
    /\ socks = <<>>
    /\ timers = {}
    /\ polling = 0
    /\ emitted = <<>>
    /\ connEvents = <<>>
    /\ clientId \in {NULL, "sid1"}
    /\ sessionStorage = clientId
    /\ uncaught = FALSE
    /\ received = 0
    /\ ticks = 0
    /\ lastOp = Op("new", 0)
    /\ rest = Idle
    /\ SerIdle

NextRest ==
    \/ getExtensions
    \/ getEmbeddings
    \/ getNodeDefs
    \/ getSystemStats
    \/ getQueue
    \/ getHistory
    \/ interrupt
    \/ \E type \in {"queue", "history"} : deleteItem(type)
    \/ \E type \in {"queue", "history"} : clearItems(type)
    \/ \E a \in PromptArgs : queuePrompt(a)
    \/ \E r \in Responses : FetchSettles(r)

SpecRest == InitRest /\ [][NextRest]_vars

InitApi ==
    /\ socket = NoSocket
    /\ socks = <<>>
    /\ timers = {}
    /\ polling = 0
    /\ emitted = <<>>
    /\ connEvents = <<>>
    /\ clientId = NULL
    /\ sessionStorage \in {NULL, "sid0"}
    /\ uncaught = FALSE
    /\ received = 0
    /\ ticks = 0
    /\ lastOp = Op("new", 0)
    /\ rest = Idle
    /\ SerIdle

NextApi ==
    \/ init
    \/ \E s \in 1..MaxSockets : SocketOpen(s)
    \/ \E s \in 1..MaxSockets : SocketError(s)
    \/ \E s \in 1..MaxSockets : SocketClose(s)
    \/ \E t \in 1..MaxSockets : TimerFire(t)
    \/ \E s \in 1..MaxSockets : \E f \in Frames : Message(s, f)
    \/ \E ok \in BOOLEAN : PollTick(ok)

SpecApi == InitApi /\ [][NextApi]_vars

\* The reconnect timer is a browser timeout: once scheduled it fires.
SpecApiFair == SpecApi /\ \A t \in 1..MaxSockets : WF_vars(TimerFire(t))

(***************************************************************************)
(* The graphs serialize is run on                                          *)
(***************************************************************************)
\* What a link out of a frontend node may carry after graph.runStep: nothing,
\* a number, a two-element array naming node A, a two-element array naming no
\* node, a longer array.
Lits == {Undefined, Scalar(7), Arr(2, "A", 0), Arr(2, "zz", 0), Arr(3, "zz", 0)}

\* A node with one input fed by `link`, in one of the ways the traversal
\* tells apart; frontend2 has a second input, comfyNull's getUpstreamLink
\* answers null.
Variants == {"Reroute", "ComfyReroute", "comfy", "frontend", "backend", "frontend2", "comfyNull"}
Middle(id, variant, g, link) ==
    IF variant = "backend" THEN Backend(id, g, <<In("in", link)>>)
    ELSE IF variant = "frontend2"
    THEN Node(id, "frontend", g, <<In("in", link), In("other", NoLink)>>, NoLink, 0, NULL)
    ELSE IF variant = "comfyNull"
    THEN Node(id, "comfy", g, <<In("in", link)>>, NoLink, 0, NULL)
    ELSE Through(id, variant, g, link)

\* A node without inputs: a backend node or a frontend value source.
Source(id, kind, g) ==
    IF kind = "backend" THEN Backend(id, g, <<Cfg("opt", NoLink, Scalar(1))>>)
    ELSE Node(id, kind, g, <<>>, NoLink, 0, NULL)

\* A -> X -> B
chain3(kA, vX, d) ==
    Graph(<<Source("A", kA, Root), Middle("X", vX, Root, 1),
            Backend("B", Root, <<In("in", 2), Cfg("opt", NoLink, d)>>)>>,
          <<Link(1, "A", 1, "X", 0, Root, d), Link(2, "X", 0, "B", 0, Root, d)>>)

\* A -> X -> Y -> B
chain4(vX, vY) ==
    Graph(<<Source("A", "backend", Root), Middle("X", vX, Root, 1), Middle("Y", vY, Root, 2),
            Backend("B", Root, <<In("in", 3)>>)>>,
          <<Link(1, "A", 1, "X", 0, Root, Undefined), Link(2, "X", 0, "Y", 0, Root, Undefined),
            Link(3, "Y", 0, "B", 0, Root, Undefined)>>)

\* X and Y feed each other; Y -> B
cycle(vX, vY) ==
    Graph(<<Middle("X", vX, Root, 1), Middle("Y", vY, Root, 2),
            Backend("B", Root, <<In("in", 3)>>)>>,
          <<Link(1, "Y", 0, "X", 0, Root, Scalar(7)), Link(2, "X", 0, "Y", 0, Root, Scalar(7)),
            Link(3, "Y", 0, "B", 0, Root, Scalar(7))>>)

\* X feeds itself; X -> B
selfLoop(vX) ==
    Graph(<<Middle("X", vX, Root, 1), Backend("B", Root, <<In("in", 2)>>)>>,
          <<Link(1, "X", 0, "X", 0, Root, Scalar(7)), Link(2, "X", 0, "B", 0, Root, Scalar(7))>>)

\* Inside subgraph S: A -> GraphOutput feeding outer slot k.  Outside: S's
\* slot j -> B.
subgraphExit(j, k) ==
    Graph(<<Source("A", "backend", "S"),
            Node("GO", "GraphOutput", "S", <<In("value", 1)>>, NoLink, k, NULL),
            Node("S", "Subgraph", Root, <<>>, NoLink, 0, NULL),
            Backend("B", Root, <<In("in", 2)>>)>>,
          <<Link(1, "A", 0, "GO", 0, "S", Undefined), Link(2, "S", j, "B", 0, Root, Undefined)>>)

\* Inside subgraph S: A -> X -> GraphOutput feeding outer slot 1.  Outside:
\* S's slot 1 -> B.
subgraphExitVia(vX) ==
    Graph(<<Source("A", "backend", "S"), Middle("X", vX, "S", 1),
            Node("GO", "GraphOutput", "S", <<In("value", 2)>>, NoLink, 1, NULL),
            Node("S", "Subgraph", Root, <<>>, NoLink, 0, NULL),
            Backend("B", Root, <<In("in", 3)>>)>>,
          <<Link(1, "A", 1, "X", 0, "S", Undefined), Link(2, "X", 0, "GO", 0, "S", Undefined),
            Link(3, "S", 1, "B", 0, Root, Undefined)>>)

\* Outside: A -> S's input x.  Inside S: GraphInput named nm -> B.
subgraphEntry(nm) ==
    Graph(<<Source("A", "backend", Root),
            Node("S", "Subgraph", Root, <<In("w", NoLink), In("x", 1)>>, NoLink, 0, NULL),
            Node("GI", "GraphInput", "S", <<>>, NoLink, 0, nm),
            Backend("B", "S", <<In("in", 2)>>)>>,
          <<Link(1, "A", 0, "S", 1, Root, Undefined), Link(2, "GI", 0, "B", 0, "S", Undefined)>>)

\* A GraphInput in the root graph -> B
rootInput ==
    Graph(<<Node("GI", "GraphInput", Root, <<>>, NoLink, 0, "x"),
            Backend("B", Root, <<In("in", 1)>>)>>,
          <<Link(1, "GI", 0, "B", 0, Root, Undefined)>>)

\* S1 contains S2 contains A -> B
nested ==
    Graph(<<Node("S1", "Subgraph", Root, <<>>, NoLink, 0, NULL),
            Node("S2", "Subgraph", "S1", <<>>, NoLink, 0, NULL),
            Source("A", "backend", "S2"), Backend("B", "S2", <<In("in", 1)>>)>>,
          <<Link(1, "A", 0, "B", 0, "S2", Undefined)>>)

\* A frontend value W -> B.lit; backend A -> B.ref; B.opt is not connected.
fanIn(d, ser) ==
    Graph(<<Source("W", "comfy", Root), Source("A", "backend", Root),
            Backend("B", Root, <<Slot("lit", 1, TRUE, Scalar(1), ser), In("ref", 2),
                                 Cfg("opt", NoLink, d)>>)>>,
          <<Link(1, "W", 0, "B", 0, Root, d), Link(2, "A", 0, "B", 1, Root, Undefined)>>)

\* B's input link names a node that is gone.
dangling ==
    Graph(<<Backend("B", Root, <<Cfg("in", 1, Scalar(1))>>)>>,
          <<Link(1, "gone", 0, "B", 0, Root, Scalar(7))>>)

Topologies ==
    {chain3(kA, vX, d) : kA \in {"backend", "comfy"}, vX \in Variants,
                         d \in {Undefined, Scalar(7)}}
    \cup {chain4(vX, vY) : vX \in {"Reroute", "ComfyReroute", "comfy"},
                           vY \in {"Reroute", "ComfyReroute", "comfy"}}
    \cup {cycle(vX, vY) : vX \in {"Reroute", "comfy", "frontend"},
                          vY \in {"Reroute", "comfy", "frontend"}}
    \cup {selfLoop(vX) : vX \in {"Reroute", "comfy", "frontend"}}
    \cup {subgraphExit(j, k) : j \in {0, 1}, k \in {0, 1}}
    \cup {subgraphExitVia(vX) : vX \in {"comfy", "frontend"}}
    \cup {subgraphEntry(nm) : nm \in {"x", "y"}}
    \cup {fanIn(d, ser) : d \in Lits, ser \in BOOLEAN}
    \cup {rootInput, nested, dangling}

\* The graph t with the nodes of `muted` muted and those of `untagged`
\* carrying `others` (no tag, or a tag other than T); every other node is
\* active and tagged T.
Dress(t, muted, untagged, others) ==
    [t EXCEPT !.nodes = [id \in DOMAIN t.nodes |->
        [t.nodes[id] EXCEPT !.mode = IF id \in muted THEN NEVER ELSE ALWAYS,
                            !.tags = IF id \in untagged THEN others ELSE {"T"}]]]

\* The graphs and tag filters serialize and locateUpstream are run with.
Dressed ==
    \E t \in Topologies : \E muted \in SUBSET DOMAIN t.nodes :
        \E untagged \in SUBSET DOMAIN t.nodes : \E others \in {{}, {"U"}} :
            /\ untagged = {} => others = {}
            /\ graph = Dress(t, muted, untagged, others)

InitSer ==
    /\ socket = NoSocket
    /\ socks = <<>>
    /\ timers = {}
    /\ polling = 0
    /\ emitted = <<>>
    /\ connEvents = <<>>
    /\ clientId = NULL
    /\ sessionStorage = NULL
    /\ uncaught = FALSE
    /\ received = 0
    /\ ticks = 0
    /\ lastOp = Op("new", 0)
    /\ rest = Idle
    /\ Dressed
    /\ tag \in {NULL, "T"}
    /\ phase = "idle"
    /\ idx = 0
    /\ output = EmptyMap
    /\ unpruned = EmptyMap
    /\ locating = NotLocating

NextSer ==
    \/ serialize
    \/ serializeNode
    \/ serializeReturn

SpecSer == InitSer /\ [][NextSer]_vars

InitLocate == InitSer

NextLocate ==
    \/ \E fromNode \in DOMAIN graph.nodes :
           \E inputIndex \in 0..(Len(graph.nodes[fromNode].inputs) - 1) :
               locateUpstreamCall(fromNode, inputIndex)
    \/ locateStep
    \/ locateReturn
    \/ locateThrow

SpecLocate == InitLocate /\ [][NextLocate]_vars

\* The loop is straight-line code: a step that can run does run.
SpecLocateFair ==
    SpecLocate /\ WF_vars(locateStep) /\ WF_vars(locateReturn) /\ WF_vars(locateThrow)

(***************************************************************************)
(* Properties of the serializer                                            *)
(***************************************************************************)
\* The input values of the returned output that are two-element arrays.
PairInputs ==
    {<<nodeId, inputName>> \in
        UNION {{<<n, k>> : k \in DOMAIN output[n].inputs} : n \in DOMAIN output} :
        /\ output[nodeId].inputs[inputName].kind = "array"
        /\ output[nodeId].inputs[inputName].len = 2}

\* C1: in the output serialize returns, every input value that is a
\* two-element [originId, slot] array names with originId a key of the
\* output: no dangling reference survives the prune pass.
C1_NoDanglingReference ==
    phase = "returned" =>
        \A p \in PairInputs : output[p[1]].inputs[p[2]].key \in DOMAIN output

\* serialize returned an output that holds a reference, after a prune pass
\* that deleted a two-element array.
C1_PrunedAndKept ==
    /\ phase = "returned"
    /\ PairInputs # {}
    /\ \E n \in DOMAIN unpruned :
           \E k \in DOMAIN unpruned[n].inputs :
               /\ unpruned[n].inputs[k].kind = "array"
               /\ k \notin DOMAIN output[n].inputs

\* An iteration of the loop ends the traversal or records a link id that was
\* not recorded before; on a recorded link id it ends the traversal.
IterationEndsOrRecords ==
    locateStep =>
        LET up == getUpstreamLink(locating.st.parent, locating.st.currentLink) IN
        /\ \/ locating'.st.threw
           \/ locating'.st.broke
           \/ locating'.st.parent = NULL
           \/ /\ up.link \notin locating.st.seen
              /\ locating'.st.seen = locating.st.seen \cup {up.link}
        /\ (~up.threw /\ up.link # NoLink /\ up.link \in locating.st.seen) =>
               locating'.st.parent = NULL

\* C12: locateUpstream terminates on every graph, cyclic ones included: each
\* loop iteration either stops or records a link id not seen before, meeting
\* a recorded link id again ends the traversal, every call that entered the
\* loop leaves it, and a call that met a recorded link id answers null.
C12_LocateTerminates ==
    /\ [][IterationEndsOrRecords]_vars
    /\ (locating.pc = "loop") ~> (locating.pc \in {"done", "threw"})
    /\ []((locating.pc = "done" /\ locating.revisited) => locating.answer.found = NULL)

\* A call on a cycle of frontend nodes has returned after meeting a link id
\* for the second time.
C12_CycleReturned ==
    /\ locating.pc = "done"
    /\ locating.revisited
    /\ locating.st.steps = 3

\* C13: locateUpstream, called as serialize calls it (from an active backend
\* node), answers a found node only if that node is active under the tag and
\* satisfies the target test, and no node it traversed is muted or excluded
\* by the tag.
C13_InactiveNeverUsed ==
    (locating.pc = "done" /\ isActiveBackendNode(locating.fromNode, tag)) =>
        /\ locating.answer.found # NULL =>
               /\ isActiveNode(locating.answer.found, tag)
               /\ isTheTargetNode(locating.answer.found, locating.answer.link)
        /\ \A n \in locating.through : isActiveNode(n, tag)

\* A backend node was found through a subgraph whose GraphOutput is muted.
C13_FoundThroughMutedOutput ==
    /\ locating.pc = "done"
    /\ isActiveBackendNode(locating.fromNode, tag)
    /\ locating.answer.found # NULL
    /\ \E n \in locating.through :
           graph.nodes[n].kind = "GraphOutput" /\ graph.nodes[n].mode # ALWAYS

\* The graph is the chain A -> X -> Y -> B with X and Y reroutes.
IsRerouteChain ==
    /\ graph.order = <<"A", "X", "Y", "B">>
    /\ isReroute("X")
    /\ isReroute("Y")

\* C14: in a chain A(backend) -> Reroute -> Reroute -> B(backend) with A and
\* B active under the tag filter and both reroutes unmuted, serialize gives
\* B's input the entry [A.id, A's output slot], whatever tags the reroutes
\* carry.
C14_RerouteTransparency ==
    (/\ phase = "returned"
     /\ IsRerouteChain
     /\ isActiveBackendNode("A", tag)
     /\ isActiveBackendNode("B", tag)
     /\ graph.nodes["X"].mode = ALWAYS
     /\ graph.nodes["Y"].mode = ALWAYS) =>
        /\ "B" \in DOMAIN output
        /\ "in" \in DOMAIN output["B"].inputs
        /\ output["B"].inputs["in"] = Arr(2, "A", graph.links[1].origin_slot)

\* serialize ran with filter tag T on a reroute chain whose first reroute
\* carries another tag and whose second carries T, and linked B to A.
C14_RerouteTagsDiffer ==
    /\ phase = "returned"
    /\ IsRerouteChain
    /\ tag = "T"
    /\ graph.nodes["X"].tags = {"U"}
    /\ graph.nodes["Y"].tags = {"T"}
    /\ "B" \in DOMAIN output
    /\ "in" \in DOMAIN output["B"].inputs
    /\ output["B"].inputs["in"] = Arr(2, "A", 1)

\* The unmuted backend nodes of the graph.
UnmutedBackendNodes ==
    {b \in DOMAIN graph.nodes : isBackendNode(b) /\ graph.nodes[b].mode = ALWAYS}
\* Node n carries the filter tag itself.
Carries(n) == tag \in graph.nodes[n].tags
\* Node n carries the filter tag or some ancestor subgraph node of it does.
CarriesOrInherits(n) == Carries(n) \/ \E s \in iterateParentSubgraphNodes(n) : Carries(s)

\* An unmuted backend node that carries the filter tag but has an ancestor
\* subgraph node that neither carries nor inherits it is not in the output.
TaggedUnderUntaggedAncestorExcluded ==
    \A b \in UnmutedBackendNodes :
        (Carries(b) /\ \E s \in iterateParentSubgraphNodes(b) : ~CarriesOrInherits(s)) =>
            b \notin DOMAIN output

\* C15 as stated: serializing with tag T, an unmuted backend node without T
\* nested at any depth inside a subgraph node carrying T is in the output,
\* and one carrying T under an ancestor that neither carries nor inherits T
\* is not.
C15_TagInheritance ==
    (phase = "returned" /\ tag # NULL) =>
        /\ \A b \in UnmutedBackendNodes :
               (~Carries(b) /\ \E s \in iterateParentSubgraphNodes(b) : Carries(s)) =>
                   b \in DOMAIN output
        /\ TaggedUnderUntaggedAncestorExcluded

\* C15, amended: the node without T is in the output when, besides having an
\* ancestor carrying T, every ancestor subgraph node of it is unmuted and
\* carries or inherits T; the exclusion half holds as stated.
C15_TagInheritanceUnderActiveAncestors ==
    (phase = "returned" /\ tag # NULL) =>
        /\ \A b \in UnmutedBackendNodes :
               (/\ ~Carries(b)
                /\ \E s \in iterateParentSubgraphNodes(b) : Carries(s)
                /\ \A s \in iterateParentSubgraphNodes(b) :
                       graph.nodes[s].mode = ALWAYS /\ CarriesOrInherits(s)) =>
                   b \in DOMAIN output
        /\ TaggedUnderUntaggedAncestorExcluded

\* serialize with tag T kept a backend node that has no tag and sits two
\* subgraphs deep, of which only the outer one carries T.
C15_InheritedTwoDeep ==
    /\ phase = "returned"
    /\ tag = "T"
    /\ "S1" \in DOMAIN graph.nodes
    /\ graph.nodes["S1"].tags = {"T"}
    /\ graph.nodes["S2"].tags # {"T"}
    /\ graph.nodes["B"].tags # {"T"}
    /\ "B" \in DOMAIN output

\* The backend nodes of the graph, and the input slots of node n that carry
\* a link.
BackendNodes == {b \in DOMAIN graph.nodes : isBackendNode(b)}
ConnectedSlots(n) ==
    {i \in 0..(Len(graph.nodes[n].inputs) - 1) : graph.nodes[n].inputs[i + 1].link # NoLink}

\* Every node is always-active and every connected input of a backend node
\* is linked directly to a backend node.
OnlyDirectBackendLinks ==
    /\ \A n \in DOMAIN graph.nodes : graph.nodes[n].mode = ALWAYS
    /\ \A b \in BackendNodes : \A i \in ConnectedSlots(b) :
           getInputNode(b, i) # NULL /\ isBackendNode(getInputNode(b, i))

\* C16: with every node always-active, no tag filter and only direct
\* backend-to-backend links, the keys of the output are exactly the backend
\* node ids, every connected input is the pair [origin id, origin slot] of
\* its link, and every two-element array among the inputs is such a pair
\* and names a key of the output.
C16_DirectLinksSerializeExactly ==
    (phase = "returned" /\ tag = NULL /\ OnlyDirectBackendLinks) =>
        /\ DOMAIN output = BackendNodes
        /\ \A b \in BackendNodes : \A i \in ConnectedSlots(b) :
               LET name == graph.nodes[b].inputs[i + 1].name
                   link == graph.links[graph.nodes[b].inputs[i + 1].link] IN
               /\ name \in DOMAIN output[b].inputs
               /\ output[b].inputs[name] = Arr(2, link.origin_id, link.origin_slot)
        /\ \A p \in PairInputs :
               /\ output[p[1]].inputs[p[2]].key \in DOMAIN output
               /\ \E i \in ConnectedSlots(p[1]) :
                      LET link == graph.links[graph.nodes[p[1]].inputs[i + 1].link] IN
                      /\ graph.nodes[p[1]].inputs[i + 1].name = p[2]
                      /\ output[p[1]].inputs[p[2]] = Arr(2, link.origin_id, link.origin_slot)

\* serialize returned the chain of three backend nodes A -> X -> B, with a
\* literal default on B and X linked to A's output slot 1.
C16_BackendChainSerialized ==
    /\ phase = "returned"
    /\ tag = NULL
    /\ OnlyDirectBackendLinks
    /\ DOMAIN output = {"A", "X", "B"}
    /\ output["X"].inputs["in"] = Arr(2, "A", 1)
    /\ "opt" \in DOMAIN output["B"].inputs
    /\ output["B"].inputs["opt"].kind = "scalar"

\* Node n hands its single input on: a reroute, or a frontend node whose
\* upstream link is its input link.
IsPassthrough(n) ==
    /\ graph.nodes[n].kind \in {"Reroute", "ComfyReroute", "comfy", "frontend"}
    /\ Len(graph.nodes[n].inputs) = 1
    /\ hasGetUpstreamLink(n) => graph.nodes[n].upstream = graph.nodes[n].inputs[1].link

\* The backend node that feeds through n: n itself when it is a backend
\* node, else the feeder of n's input when n is an active passthrough node.
RECURSIVE FeederFrom(_, _)
FeederFrom(n, fuel) ==
    IF n = NULL \/ fuel = 0 THEN NULL
    ELSE IF isBackendNode(n) THEN n
    ELSE IF IsPassthrough(n) /\ isActiveNode(n, tag)
    THEN FeederFrom(getInputNode(n, 0), fuel - 1)
    ELSE NULL

\* C17: when the backend node feeding an input of an included backend node,
\* directly or through active reroutes / frontend passthrough nodes, is not
\* in the output, the dependent node's serialized inputs hold nothing for
\* that input: no reference and no literal value.
C17_ExcludedFeederLeavesNoEntry ==
    phase = "returned" =>
        \A b \in DOMAIN output : \A i \in ConnectedSlots(b) :
            LET a == FeederFrom(getInputNode(b, i), MaxSteps)
                name == graph.nodes[b].inputs[i + 1].name IN
            (a # NULL /\ a \notin DOMAIN output) =>
                \/ name \notin DOMAIN output[b].inputs
                \/ output[b].inputs[name] = Undefined

\* Backend A is muted, the frontend passthrough X between A and B is active,
\* and B's input holds the value of the link that leaves X.
C17_LeftoverLiteral ==
    /\ phase = "returned"
    /\ graph.order = <<"A", "X", "B">>
    /\ isBackendNode("A")
    /\ graph.nodes["A"].mode # ALWAYS
    /\ graph.nodes["X"].kind = "comfy"
    /\ IsPassthrough("X")
    /\ "B" \in DOMAIN output
    /\ "in" \in DOMAIN output["B"].inputs
    /\ output["B"].inputs["in"] = Scalar(7)

\* C18: serialize is total: whatever the graph (a subgraph output without
\* an inner GraphOutput, a GraphInput without owning subgraph or matching
\* outer input, a link cycle), no exception ends the call, and on a cycle of
\* frontend nodes the returned prompt holds no reference for the input.
C18_SerializeTotal ==
    /\ phase # "threw"
    /\ (phase = "returned" /\ graph.order = <<"X", "Y", "B">> /\ "B" \in DOMAIN output) =>
           \A k \in DOMAIN output["B"].inputs : output["B"].inputs[k].kind # "array"

\* serialize was ended by the Error of followSubgraph: the link into B
\* leaves an output slot of subgraph S that no inner GraphOutput feeds.
C18_SerializeAborted ==
    /\ phase = "threw"
    /\ "S" \in DOMAIN graph.nodes
    /\ graph.nodes["S"].kind = "Subgraph"
    /\ graph.links[2].origin_id = "S"
    /\ getInnerGraphOutputByIndex("S", graph.links[2].origin_slot) = NULL

\* The slots of node b, and what the literal-values pass answers for b.
Slots(b) == 0..(Len(graph.nodes[b].inputs) - 1)
\* Slot i of b has no link, or its link names no node.
Unconnected(b, i) == getInputLink(b, i) = NoLink \/ getInputNode(b, i) = NULL
\* An unconnected slot contributes its configured default when it has one
\* and nothing otherwise.
UnconnectedGivesDefault ==
    \A b \in DOMAIN output : \A i \in Slots(b) :
        LET inp == graph.nodes[b].inputs[i + 1] IN
        Unconnected(b, i) =>
            IF inp.hasConfig /\ inp.defaultValue # Undefined
            THEN /\ inp.name \in DOMAIN serializeInputValues(b)
                 /\ serializeInputValues(b)[inp.name] = inp.defaultValue
            ELSE inp.name \notin DOMAIN serializeInputValues(b)

\* C19 as stated: in the literal-values pass of an included backend node, a
\* slot connected to a producer that is muted or, under a tag filter, lacks
\* the tag contributes nothing, and an unconnected slot contributes its
\* configured default when present and nothing otherwise.
C19_InactiveProducerSkipped ==
    phase = "returned" =>
        /\ \A b \in DOMAIN output : \A i \in Slots(b) :
               LET p == getInputNode(b, i) IN
               (p # NULL /\ (graph.nodes[p].mode # ALWAYS
                             \/ (tag # NULL /\ ~CarriesOrInherits(p)))) =>
                   graph.nodes[b].inputs[i + 1].name \notin DOMAIN serializeInputValues(b)
        /\ UnconnectedGivesDefault

\* C19, amended: a slot connected to a muted producer contributes nothing;
\* the tag filter plays no part in this pass, a slot connected to an unmuted
\* producer that is not a backend node contributes its link's data (unless
\* the slot's serialize flag is off) whether or not the producer carries
\* the tag; an unconnected slot contributes its default as stated.
C19_MutedProducerSkipped ==
    phase = "returned" =>
        /\ \A b \in DOMAIN output : \A i \in Slots(b) :
               LET p == getInputNode(b, i)
                   inp == graph.nodes[b].inputs[i + 1] IN
               /\ (p # NULL /\ graph.nodes[p].mode # ALWAYS) =>
                      inp.name \notin DOMAIN serializeInputValues(b)
               /\ (/\ p # NULL
                   /\ graph.nodes[p].mode = ALWAYS
                   /\ ~isBackendNode(p)
                   /\ inp.hasConfig => inp.serialize) =>
                      /\ inp.name \in DOMAIN serializeInputValues(b)
                      /\ serializeInputValues(b)[inp.name] = graph.links[inp.link].data
        /\ UnconnectedGivesDefault

\* serialize returned B, whose slot lit has a configured default and is
\* linked to the muted value node W: the output holds nothing for lit, and
\* the unconnected slot opt holds its default.
C19_MutedSourceNoDefault ==
    /\ phase = "returned"
    /\ graph.order = <<"W", "A", "B">>
    /\ graph.nodes["W"].mode # ALWAYS
    /\ graph.nodes["B"].inputs[1].defaultValue = Scalar(1)
    /\ "B" \in DOMAIN output
    /\ "lit" \notin DOMAIN output["B"].inputs
    /\ "opt" \in DOMAIN output["B"].inputs
    /\ output["B"].inputs["opt"] = graph.nodes["B"].inputs[3].defaultValue

\* Node s is muted or, under a tag filter, neither carries nor inherits the tag.
Inactive(s) == graph.nodes[s].mode # ALWAYS \/ (tag # NULL /\ ~CarriesOrInherits(s))

\* C20: a backend node that is unmuted and passes the tag check is absent
\* from the output serialize returns whenever some ancestor subgraph node
\* of it, at any depth, is muted or fails the tag check.
C20_InactiveAncestorExcludes ==
    phase = "returned" =>
        \A b \in UnmutedBackendNodes :
            (/\ tag # NULL => CarriesOrInherits(b)
             /\ \E s \in iterateParentSubgraphNodes(b) : Inactive(s)) =>
                b \notin DOMAIN output

\* serialize returned without B, which is unmuted and sits in the active
\* subgraph S2 inside the muted subgraph S1; no tag filter is set.
C20_OuterSubgraphMuted ==
    /\ phase = "returned"
    /\ tag = NULL
    /\ "S1" \in DOMAIN graph.nodes
    /\ graph.nodes["S1"].mode # ALWAYS
    /\ graph.nodes["S2"].mode = ALWAYS
    /\ graph.nodes["B"].mode = ALWAYS
    /\ iterateParentSubgraphNodes("B") = {"S1", "S2"}
    /\ "B" \notin DOMAIN output

\* The link that leaves an active backend node and reaches link l, directly
\* or through active reroutes / frontend passthrough nodes; NoLink if none.
RECURSIVE SourceLink(_, _)
SourceLink(l, fuel) ==
    IF l = NoLink \/ fuel = 0 THEN NoLink
    ELSE LET n == getNodeById(graph.links[l].graph, graph.links[l].origin_id) IN
         IF n = NULL THEN NoLink
         ELSE IF isBackendNode(n) THEN (IF isActiveNode(n, tag) THEN l ELSE NoLink)
         ELSE IF IsPassthrough(n) /\ isActiveNode(n, tag)
         THEN SourceLink(getInputLink(n, 0), fuel - 1)
         ELSE NoLink

\* Input i of b is linked to an output of an active subgraph node whose
\* inner GraphOutput of that index is fed by an active backend node: the
\* link leaving that backend node.
ExitSource(b, i) ==
    LET l == getInputLink(b, i)
        sub == getInputNode(b, i) IN
    IF sub = NULL \/ graph.nodes[sub].kind # "Subgraph" \/ ~isActiveNode(sub, tag) THEN NoLink
    ELSE LET go == getInnerGraphOutputByIndex(sub, graph.links[l].origin_slot) IN
         IF go = NULL THEN NoLink ELSE SourceLink(getInputLink(go, 0), MaxSteps)

\* Input i of b is linked to a GraphInput whose owning subgraph node has an
\* input of the GraphInput's name fed by an active backend node: the link
\* leaving that backend node.
EntrySource(b, i) ==
    LET gi == getInputNode(b, i) IN
    IF gi = NULL \/ graph.nodes[gi].kind # "GraphInput" THEN NoLink
    ELSE LET owner == getParentSubgraph(gi) IN
         IF owner = NULL THEN NoLink
         ELSE LET k == findIndex(owner, graph.nodes[gi].nameInGraph) IN
              IF k = -1 THEN NoLink ELSE SourceLink(getInputLink(owner, k), MaxSteps)

\* locateUpstream from input i of b finds the origin of link src, and the
\* output serialize returned, when it holds b, holds the reference
\* [origin id, origin slot] for that input.
ResolvesTo(b, i, src) ==
    LET r == locateUpstream(b, i, tag)
        name == graph.nodes[b].inputs[i + 1].name IN
    /\ ~r.threw
    /\ r.found = graph.links[src].origin_id
    /\ r.link = src
    /\ (phase = "returned" /\ b \in DOMAIN output) =>
           /\ name \in DOMAIN output[b].inputs
           /\ output[b].inputs[name] =
                  Arr(2, graph.links[src].origin_id, graph.links[src].origin_slot)

\* The inputs of the backend nodes of the graph.
BackendInputs ==
    {<<b, i>> \in UNION {{<<n, j>> : j \in 0..(Len(graph.nodes[n].inputs) - 1)} :
                              n \in DOMAIN graph.nodes} : isBackendNode(b)}

\* C22 (as stated): an input of a backend node linked to an output of an
\* active subgraph node resolves, through the inner GraphOutput of that index
\* and active passthrough nodes, to the active backend node feeding it, and
\* an input linked to a GraphInput resolves through the owning subgraph's
\* input of the same name to the active backend node feeding that input:
\* locateUpstream finds the node and serialize records [id, output slot].
C22_BoundaryTraversal ==
    \A p \in BackendInputs :
        /\ ExitSource(p[1], p[2]) # NoLink =>
               ResolvesTo(p[1], p[2], ExitSource(p[1], p[2]))
        /\ EntrySource(p[1], p[2]) # NoLink =>
               ResolvesTo(p[1], p[2], EntrySource(p[1], p[2]))

\* C22 (amended): the same, the entry through a GraphInput only when the
\* GraphInput is not muted.
C22_BoundaryTraversalUnmutedInput ==
    \A p \in BackendInputs :
        /\ ExitSource(p[1], p[2]) # NoLink =>
               ResolvesTo(p[1], p[2], ExitSource(p[1], p[2]))
        /\ (EntrySource(p[1], p[2]) # NoLink
               /\ graph.nodes[getInputNode(p[1], p[2])].mode = ALWAYS) =>
               ResolvesTo(p[1], p[2], EntrySource(p[1], p[2]))

\* C22 (witness): serialize returned the reference [A, 1] for B's input,
\* found through subgraph S, its GraphOutput and a frontend passthrough node
\* that is not a reroute.
C22_ResolvedThroughSubgraph ==
    /\ phase = "returned"
    /\ "X" \in DOMAIN graph.nodes /\ graph.nodes["X"].kind = "frontend"
    /\ ExitSource("B", 0) = 1
    /\ "B" \in DOMAIN output
    /\ output["B"].inputs["in"] = Arr(2, "A", 1)

\* An inner node's input was resolved through a GraphInput and the owning
\* subgraph's input x to backend node A of the parent graph.
C22_ResolvedThroughGraphInput ==
    /\ phase = "returned"
    /\ "GI" \in DOMAIN graph.nodes
    /\ EntrySource("B", 0) = 1
    /\ "B" \in DOMAIN output
    /\ output["B"].inputs["in"] = Arr(2, "A", 0)

\* Input k of node n was written by serializeBackendLinks: it is a recorded
\* link reference; any other input is a literal of serializeInputValues.
IsLinkReference(n, k) == k \in DOMAIN serializeBackendLinks(n, tag).inputs

\* The inputs of the output as it was before the prune pass.
UnprunedInputs ==
    UNION {{<<n, k>> : k \in DOMAIN unpruned[n].inputs} : n \in DOMAIN unpruned}

\* C23: the prune pass deletes an input only if it was recorded as a link
\* reference and its origin is not a key of the output; every literal value
\* of serializeInputValues, a two-element array included, and every link
\* reference whose origin is a key of the output is returned unchanged.
C23_PruneOnlyDanglingReferences ==
    phase = "returned" =>
        /\ DOMAIN output = DOMAIN unpruned
        /\ \A p \in UnprunedInputs :
               LET v == unpruned[p[1]].inputs[p[2]]
                   kept == /\ p[2] \in DOMAIN output[p[1]].inputs
                           /\ output[p[1]].inputs[p[2]] = v IN
               IF IsLinkReference(p[1], p[2]) /\ v.key \notin DOMAIN unpruned
               THEN TRUE
               ELSE kept

\* C23 (the divergence): the value [zz, 0] that frontend node W sent into
\* B.lit was written by serializeInputValues and deleted by the prune pass.
C23_LiteralPairDeleted ==
    /\ phase = "returned"
    /\ "W" \in DOMAIN graph.nodes
    /\ "B" \in DOMAIN unpruned
    /\ "lit" \in DOMAIN unpruned["B"].inputs
    /\ unpruned["B"].inputs["lit"] = Arr(2, "zz", 0)
    /\ ~IsLinkReference("B", "lit")
    /\ "lit" \notin DOMAIN output["B"].inputs

\* C24: whenever locateUpstream returns a found node, the link it returns
\* is not null and leaves the found node, and the reference
\* serializeBackendLinks builds from that answer is [found id, origin slot of
\* that link]; while the loop runs, currentLink is the link from parent.
C24_LinkLeavesFoundNode ==
    /\ (locating.pc = "loop" /\ locating.st.parent # NULL /\ ~locating.st.threw) =>
           /\ locating.st.currentLink # NoLink
           /\ graph.links[locating.st.currentLink].origin_id = locating.st.parent
    /\ (locating.pc = "done" /\ locating.answer.found # NULL) =>
           LET link == locating.answer.link
               name == graph.nodes[locating.fromNode].inputs[locating.inputIndex + 1].name
               refs == backendLink(locating.fromNode, tag, locating.inputIndex,
                                   Links(EmptyMap, FALSE, FALSE)) IN
           /\ link # NoLink
           /\ graph.links[link].origin_id = locating.answer.found
           /\ isBackendNode(locating.answer.found)
           /\ refs.inputs = Put(EmptyMap, name,
                                Arr(2, locating.answer.found, graph.links[link].origin_slot))

\* C24 (witness): a call returned a backend node found after two or more
\* iterations, through a subgraph boundary.
C24_FoundAcrossBoundary ==
    /\ locating.pc = "done"
    /\ locating.answer.found # NULL
    /\ locating.answer.steps >= 2
    /\ \E n \in locating.through : graph.nodes[n].kind = "Subgraph"
    /\ locating.answer.link # getInputLink(locating.fromNode, locating.inputIndex)

(***************************************************************************)
(* Properties of the API client                                            *)
(***************************************************************************)

\* The frame delivered by the step that led here.
IsPreviewFrame(f) == f.bin /\ Len(f.bytes) >= 8 /\ getUint32(f.bytes, 0) = 1

\* C2: a binary frame whose first word is 1 makes the message handler emit
\* exactly one b_preview event, whose mime type follows the second word
\* (bytes 4..7): image/png for 2, image/jpeg for 1 and anything else.
C2_PreviewMimeFromSecondWord ==
    (lastOp.op = "message" /\ IsPreviewFrame(lastOp.frame)) =>
        emitted = <<Event("b_preview",
                          IF getUint32(lastOp.frame.bytes, 4) = 2 THEN "image/png" ELSE "image/jpeg",
                          lastOp.sock)>>

\* C2 (witness): the frame [type=1][imgType=2][payload] has been handled and
\* one b_preview event was emitted for it.
C2_PngFrameHandled ==
    /\ lastOp.op = "message"
    /\ lastOp.frame = BinFrame(Word(1) \o Word(2) \o <<9>>)
    /\ Len(emitted) = 1 /\ emitted[1].type = "b_preview"

\* Socket s had opened, has closed, and its replacement s+1 has opened.
ReopenedAfter(s) ==
    /\ s \in DOMAIN socks /\ s + 1 \in DOMAIN socks
    /\ socks[s].opened /\ socks[s].st = "closed"
    /\ socks[s + 1].opened

\* C3: when a socket that had opened closes and the socket of the following
\* reconnect attempt opens, the connectivity events of the two are
\* status(null), reconnecting, reconnected, in that order, the first two
\* emitted before the replacement socket is constructed.
C3_ReconnectOrder ==
    \A s \in DOMAIN socks :
        ReopenedAfter(s) =>
            \E i \in 1..Len(connEvents) :
                /\ i + 2 <= Len(connEvents)
                /\ connEvents[i] = Event("status", NULL, s)
                /\ connEvents[i + 1] = Event("reconnecting", NULL, s)
                /\ connEvents[i + 2] = Event("reconnected", NULL, s + 1)
                /\ socks[s + 1].born = i + 1

C3_Reopened == \E s \in DOMAIN socks : ReopenedAfter(s)

Live == {s \in DOMAIN socks : socks[s].st \in {"connecting", "open"}}

\* C4: at most one socket is connecting or open at any time, and when a
\* socket has a successor it is closed (the successor was constructed only
\* after it closed); the client's reference is the newest socket.
C4_SingleLiveSocket ==
    /\ Cardinality(Live) <= 1
    /\ \A s \in DOMAIN socks : s < Len(socks) => socks[s].st = "closed"
    /\ socket = Len(socks)

\* C4 (witness): a replacement socket is live after its predecessor closed,
\* and init() has been called since.
C4_ReplacementLive ==
    /\ Len(socks) >= 2 /\ socks[Len(socks)].st \in {"connecting", "open"}
    /\ lastOp.op = "init"

\* C5: init() while the client holds a socket reference changes nothing of
\* the client: no socket is constructed, no handler registered.
C5_InitIdempotent ==
    [][(lastOp'.op = "init" /\ socket /= NoSocket) => UNCHANGED apiVars]_vars

\* C5 (witness): init() was called during the reconnect delay, while the
\* client still held the reference of a closed socket.
C5_InitDuringReconnectDelay ==
    /\ lastOp.op = "init"
    /\ socket /= NoSocket /\ socks[socket].st = "closed" /\ socket \in timers

\* C6: every close event is followed by the construction of a socket marked
\* as a reconnect attempt once the timer fires, and after init() the client
\* always has a socket that is not closed or a pending reconnect timer.
C6_CloseLeadsToReconnect ==
    /\ \A s \in 1..MaxSockets :
          (s \in DOMAIN socks /\ socks[s].st = "closed")
              ~> (s + 1 \in DOMAIN socks /\ socks[s + 1].isReconnect)
    /\ [](socks /= <<>> =>
            (timers /= {} \/ \E s \in DOMAIN socks : socks[s].st /= "closed"))

\* C6 (witness): a socket that never opened closed, and a reconnect socket
\* was constructed after it.
C6_ReconnectAfterFailedConnect ==
    /\ Len(socks) >= 2
    /\ socks[1].st = "closed" /\ ~socks[1].opened
    /\ socks[2].isReconnect

\* C7: polling is started only by an error event of the first socket, which
\* is not a reconnect attempt, while it has never opened.
C7_PollingOnlyOnFirstFailure ==
    [][polling' /= polling =>
          /\ polling' = polling + 1
          /\ lastOp'.op = "error" /\ lastOp'.sock = 1
          /\ ~socks[1].isReconnect /\ ~socks[1].opened]_vars

\* C7 (witness): polling runs, and a reconnect socket has failed before
\* opening as well.
C7_PollingStarted ==
    /\ polling = 1
    /\ Len(socks) >= 2 /\ ~socks[2].opened /\ socks[2].st = "errored"

\* A frame with an unknown binary type tag, or JSON with an unknown type.
IsUnknownFrame(f) ==
    \/ f.bin /\ Len(f.bytes) >= 4 /\ getUint32(f.bytes, 0) /= 1
    \/ ~f.bin /\ f.json.valid /\ f.json.type \notin KnownTypes

\* C8: handling a frame of unknown type emits nothing, lets no exception
\* escape the handler and leaves the client's state as it was.
C8_UnknownFrameIgnored ==
    [][(lastOp'.op = "message" /\ IsUnknownFrame(lastOp'.frame)) =>
          /\ emitted' = <<>>
          /\ ~uncaught'
          /\ UNCHANGED apiVars]_vars

\* C8 (witness): an unknown binary frame was delivered to an open socket.
C8_UnknownBinaryHandled ==
    /\ lastOp.op = "message"
    /\ lastOp.frame.bin /\ IsUnknownFrame(lastOp.frame)
    /\ socks[lastOp.sock].st = "open"

\* The frame is a status message that carries a session id.
CarriesSid(f) ==
    ~f.bin /\ f.json.valid /\ f.json.type = "status" /\ f.json.hasData /\ f.json.sid /= NULL

\* The step constructs a socket for a reconnect attempt.
ReconnectSocketCreated ==
    Len(socks') = Len(socks) + 1 /\ socks'[Len(socks')].isReconnect

\* C21: handling a status message that carries a session id sid makes
\* clientId and the persisted session id equal to sid, and they stay equal
\* from then on; a socket constructed by a reconnect after that connects with
\* ?clientId=sid; a message of another kind, or a status message without a
\* sid, changes neither clientId nor the persisted session id.
C21_SessionContinuity ==
    [][/\ lastOp'.op = "message" =>
            IF CarriesSid(lastOp'.frame)
            THEN clientId' = lastOp'.frame.json.sid /\ sessionStorage' = lastOp'.frame.json.sid
            ELSE UNCHANGED <<clientId, sessionStorage>>
       /\ clientId /= NULL => sessionStorage' = clientId'
       /\ (ReconnectSocketCreated /\ clientId /= NULL) =>
            socks'[Len(socks')].query = clientId]_vars

\* C21 (witness): the first socket connected with the session id of an
\* earlier page load, a status message replaced it, and the socket of the
\* following reconnect attempt connected with the new one.
C21_ReconnectedWithNewSid ==
    /\ Len(socks) >= 2
    /\ socks[1].query = "sid0"
    /\ clientId = "sid1" /\ sessionStorage = "sid1"
    /\ socks[2].isReconnect /\ socks[2].query = "sid1"

\* The sockets constructed as a first attempt (isReconnect = false).
FirstAttempts == {s \in DOMAIN socks : ~socks[s].isReconnect}

\* C25: whatever the order of init() calls, socket events and timer firings,
\* at most one socket is ever constructed as a first attempt and the polling
\* interval is started at most once; the interval is never cleared, and
\* while it runs a tick can fire and emits a status event, whatever the
\* state of the sockets, a reconnect socket that has opened included.
C25_OneFirstAttemptOnePoller ==
    /\ [](Cardinality(FirstAttempts) <= 1 /\ polling <= 1)
    /\ []((polling > 0 /\ ticks < MaxPolls) => ENABLED PollTick(TRUE))
    /\ [][/\ polling' >= polling
           /\ lastOp'.op = "poll" =>
                  (polling > 0 /\ Len(emitted') = 1 /\ emitted'[1].type = "status")]_vars

\* C25 (witness): the poller started by the failure of the first socket
\* emitted a status event while the socket of a reconnect attempt was open.
C25_PollingBesideOpenSocket ==
    /\ polling = 1
    /\ lastOp.op = "poll"
    /\ Len(socks) >= 2
    /\ ~socks[1].isReconnect /\ ~socks[1].opened
    /\ socks[Len(socks)].isReconnect /\ socks[Len(socks)].st = "open"

\* The positions of the reconnected events in the connectivity events.
Reconnecteds == {i \in DOMAIN connEvents : connEvents[i].type = "reconnected"}

\* Before position i there is a reconnecting event with no reconnected event
\* between it and i.
Announced(i) ==
    \E j \in 1..(i - 1) :
        /\ connEvents[j].type = "reconnecting"
        /\ \A k \in (j + 1)..(i - 1) : connEvents[k].type # "reconnected"

\* C26 (as stated): every reconnected event is preceded by a reconnecting
\* event that no other reconnected event has answered; none is emitted when
\* no socket had been open before.
C26_ReconnectedAnswersReconnecting ==
    \A i \in Reconnecteds :
        /\ Announced(i)
        /\ \E t \in 1..(connEvents[i].sock - 1) : socks[t].opened

\* C26 (amended): every reconnected event comes from the opening of a socket
\* constructed as a reconnect attempt, after an earlier socket closed; it is
\* preceded by an unanswered reconnecting event exactly when some earlier
\* socket had been open.
C26_ReconnectedOfReconnectAttempt ==
    \A i \in Reconnecteds :
        LET s == connEvents[i].sock IN
        /\ s \in DOMAIN socks /\ socks[s].isReconnect /\ socks[s].opened
        /\ s > 1 /\ \A t \in 1..(s - 1) : socks[t].st = "closed"
        /\ Announced(i) <=> \E t \in 1..(s - 1) : socks[t].opened

\* C26 (witness): the first socket failed without opening, the reconnect
\* socket opened and emitted reconnected with no reconnecting before it;
\* it closed later, and the reconnected of the third socket answers its
\* reconnecting.
C26_ReconnectedAfterFailedStart ==
    /\ Len(socks) >= 3 /\ ~socks[1].opened
    /\ Len(connEvents) = 4
    /\ connEvents[1] = Event("reconnected", NULL, 2)
    /\ connEvents[3] = Event("reconnecting", NULL, 2)
    /\ connEvents[4] = Event("reconnected", NULL, 3)

(***************************************************************************)
(* Properties of the REST helpers                                          *)
(***************************************************************************)
Settled(helper) == rest.pc = "settled" /\ rest.helper = helper

\* The fetch of the settled call failed: the network, or (for a helper that
\* parses the response) the parse of its body.
FailedCall ==
    /\ rest.pc = "settled" /\ rest.request /= NoRequest
    /\ \/ ~rest.response.ok
       \/ rest.helper \notin ResponseHelpers /\ JsonError(rest.response) /= NULL

CarriesError(result) == result.state = "resolved" /\ result.error /= NULL

C10_FrontIffNumberIsMinusOne ==
    (rest.helper = "queuePrompt" /\ rest.request /= NoRequest) =>
        /\ rest.args.number = Some(-1) => rest.request.body.front = Some(TRUE)
        /\ rest.args.number /= Some(-1) => rest.request.body.front = rest.args.front

\* C10 (witness): a prompt was posted with number -1 although the caller had
\* set front to false, and one may be posted with neither set.
C10_PostedAtFront ==
    /\ rest.helper = "queuePrompt" /\ rest.pc = "fetching"
    /\ rest.args.number = Some(-1) /\ rest.args.front = Some(FALSE)
    /\ rest.request.body.front = Some(TRUE)

\* C11: when the backend answers a prompt submission with a status other than
\* 200, queuePrompt resolves with the parsed response body and never with a
\* {promptID, number} object; when it answers 200 with a JSON object, the
\* result is {promptID, number} taken from the body's prompt_id and number.
C11_PromptErrorIsBody ==
    (Settled("queuePrompt") /\ rest.response.ok) =>
        /\ rest.response.status /= 200 => rest.result.shape /= "prompt"
        /\ (rest.response.status /= 200 /\ JsonError(rest.response) = NULL) =>
               rest.result = Resolved("json", rest.response.json, NULL)
        /\ (rest.response.status = 200 /\ rest.response.json.kind \in {"prompt", "error", "object"}) =>
               rest.result = Resolved("prompt",
                                      Payload("prompt", rest.response.json.prompt_id,
                                              rest.response.json.number), NULL)

\* The backend refused a prompt with status 400 and a structured error.
C11_PromptRefused ==
    /\ Settled("queuePrompt")
    /\ rest.response.ok
    /\ rest.response.status = 400
    /\ rest.response.json.kind = "error"
    /\ rest.result.data = rest.response.json

====
